---- MODULE Spec2Model ----
(***************************************************************************)
(* The Platform-Shell terminal backend (WindowsTerminal) with its reader   *)
(* thread, the PowerShell process it drives through pipes, and the session *)
(* controller's execute() poll loop on top of it.                          *)
(*                                                                         *)
(* Text is modelled as a sequence of tokens.  Input tokens (what is        *)
(* written to the shell's stdin):                                          *)
(*   "e"   a cmdlet that succeeds and prints a line   (echo X)             *)
(*   "f"   a cmdlet that fails and prints an error    (Get-Content nofile) *)
(*   "n"   a native program that exits non-zero       (cmd /c exit 1)      *)
(*   "s"   a command that prints forever and never ends                    *)
(*   "cls" Clear-Host                                                      *)
(*   "cd"  a change to another directory           (cd $env:USERPROFILE)   *)
(*   "set" the setting of an environment variable  ($env:TEST_VAR = 'v')   *)
(*   "get" the printing of that variable      (Write-Output $env:TEST_VAR) *)
(*   " "   blank, "\n" newline, "^C" the byte \x03, "C-c" the key name     *)
(*   ";" "WB" "X" "WP" "WE"  the pieces of the completion-marker command   *)
(* Output tokens are records [k, c, x]: k is "o" (ordinary output), "B"    *)
(* (BEGIN marker), "P" (record payload, x its exit_code, with a field d for *)
(* its working_dir), "v" (the value of the variable) or "E" (END marker);  *)
(* c is the number of the command that emitted it (0: none).               *)
(***************************************************************************)
EXTENDS Integers, Sequences, FiniteSets, TLC

VARIABLES
    process,          \* self.process: "none" | "alive" | "exited" (poll() is not None)
    initialized,      \* self._initialized
    closed,           \* self._closed
    reader_thread,    \* self.reader_thread: "none" | "running" | "done"
    stop_reader,      \* self._stop_reader
    output_buffer,    \* self.output_buffer: deque of chunks (a chunk is a sequence of output tokens)
    command_running,  \* self._command_running_event
    stdin,            \* bytes written to the process's stdin and not yet consumed by the shell
    pipe,             \* output the shell has written and the reader has not read yet
    psSuccess,        \* PowerShell's $? after the last statement
    psLastExit,       \* PowerShell's $LASTEXITCODE (PsNull: $null)
    psSpin,           \* the shell is inside a command that never ends
    psMarked,         \* number of completion records the shell has emitted
    psCwd,            \* the shell's current directory: "orig" (self.work_dir) | "other"
    psVar,            \* the environment variable is set in the shell process
    nWrites,          \* number of writes the caller has made to stdin
    nMarked,          \* number of commands sent with a completion marker
    evicted,          \* the buffer has dropped a chunk since it was last cleared
    observed,         \* an END marker was seen by is_running since the last command was sent
    closeLog,         \* the steps the runs of close() on this backend have taken,
                      \* in order
    closeCalled,      \* close() has been called before
    nStarted,         \* number of shell processes (and reader threads) started
    arrived,          \* every chunk the reader has appended, in arrival order (recorded
                      \* in the specifications that follow the arrival of chunks)
    nCleared,         \* how many chunks of arrived had come when the buffer was last cleared
    decoder,          \* self._decoder: the bytes of an incomplete character it keeps
    written,          \* every byte the shell has written to its stdout, in order (recorded
                      \* where the shell is modelled byte by byte)
    pc,               \* where the caller thread is: "idle" | "setup" | "ready" | "cleared"
                      \* (initialize) | "send" (send_keys after its clear) | "clear" |
                      \* "drained" (clear_screen) | "copied" (is_running after its read) |
                      \* "poll" | "reset" (execute) | "streams" | "join" | "terminate" |
                      \* "kill" | "mark" (inside close)
    ex,               \* the locals of the caller's wait loop (_setup_prompt, execute)
    platform_system,  \* platform.system() of the host: "Windows" | "Linux"
    tmux_available,   \* the multiplexer binary is found on the search path
    session_terminal, \* the backend class of the session the factory made ("none": no
                      \* session made by the factory)
    check_chromium,   \* impl_module._check_chromium_available: "original" | "windows"
    ctor,             \* per thread, where it is in WindowsBrowserToolExecutor.__init__
                      \* and its local original_check
    output_lock,      \* self.output_lock: "free" | "reader" | "caller" (who holds it)
    todo,             \* the statements the caller thread has still to run of the
                      \* operation it is in (where the operations are followed
                      \* statement by statement)
    rtodo,            \* the same for the reader thread's turn of its loop (where a
                      \* turn is one step: <<"top">> after a turn made with the stop
                      \* flag set, whose loop test is still to come; <<"end">> after
                      \* the flush, the return of _read_output still to come; else <<>>)
    rchunk,           \* the reader thread's local: the text decoded from its last read
    metadata_strict,  \* CmdOutputMetadata(**meta_json) raises TypeError or ValueError
                      \* for a payload that lacks fields of the record; when FALSE it
                      \* gives the fields their defaults (the class is not part of
                      \* this source: either may be the case, the same in every call)
    ret               \* what the caller's last operation did and returned

vars == <<process, initialized, closed, reader_thread, stop_reader, output_buffer,
          command_running, stdin, pipe, psSuccess, psLastExit, psSpin, psMarked,
          psCwd, psVar,
          nWrites, nMarked, evicted, observed, closeLog, closeCalled, nStarted, arrived,
          nCleared, decoder, written, pc, ex, platform_system, tmux_available,
          session_terminal, check_chromium, ctor, output_lock, todo, rtodo, rchunk,
          metadata_strict, ret>>

decodeVars == <<arrived, decoder, written>>
factoryVars == <<platform_system, tmux_available, session_terminal>>
browserVars == <<check_chromium, ctor>>
lockVars == <<output_lock, todo, rtodo, rchunk>>
\* what the backend finds around it: the host and the record class
hostVars == <<factoryVars, metadata_strict>>
sideVars == <<hostVars, browserVars, lockVars>>
readerVars == <<decodeVars, nCleared, sideVars>>
historyVars == <<closeLog, closeCalled, nStarted, readerVars>>
backendVars == <<process, initialized, closed, reader_thread, stop_reader, historyVars>>
shellVars == <<psSuccess, psLastExit, psSpin, psMarked, psCwd, psVar>>
\* the terminal backend, its shell and its caller
terminalVars == <<process, initialized, closed, reader_thread, stop_reader, closeLog,
                  closeCalled, nStarted, decodeVars, nCleared, output_buffer,
                  command_running, stdin, pipe, shellVars, nWrites, nMarked, evicted,
                  observed, pc, ex, ret>>

-----------------------------------------------------------------------------
(* Bounds of the model *)

\* capacity of the output buffer, in chunks
HISTORY_LIMIT == 3
\* largest number of output tokens one read of the reader returns
READ_CHUNK_SIZE == 2
\* number of writes to stdin the caller makes
MaxWrites == 2
\* number of writes to stdin the caller makes when its statements are followed
MaxLockWrites == 1
\* number of unread output tokens the pipe holds before the shell blocks
MaxPipe == 1
\* polls without new output after which execute() gives up
NoChangeTimeoutPolls == 2
\* polls after which execute() gives up whatever the output did
HardTimeoutPolls == 3
\* sleeps of SETUP_POLL_INTERVAL that fit into MAX_SETUP_WAIT
MaxSetupPolls == 1
\* shell processes started plus commands sent in a session with resets
MaxSessionOps == 4
\* chunks whose arrival is followed
MaxChunks == 5
\* pieces of arbitrary output the shell prints
MaxEmitted == 4
\* bytes the shell writes in all
MaxWritten == 5
\* bytes a shell that prints broken text writes in all
MaxBroken == 4

\* threads that construct a browser executor
MaxThreads == 2
\* executors each thread constructs
MaxBuilt == 2

PsNull == -1

-----------------------------------------------------------------------------
(* Text helpers *)

CTRL_C == <<"^C">>
SPECIAL_KEYS == {CTRL_C, <<"C-c">>, <<"C-C">>}
Whitespace == {" ", "\n"}

\* what send_keys appends to a command: "; Write-Host BEGIN; $exit_code = ...;
\* Write-Host (ConvertTo-Json $meta); Write-Host END"
metadata_cmd == <<";", "WB", ";", "X", ";", "WP", ";", "WE">>

\* str.strip() is empty
IsBlank(text) == \A i \in 1..Len(text) : text[i] \in Whitespace

RECURSIVE Rstrip(_)
\* str.rstrip()
Rstrip(text) ==
    IF text = <<>> THEN <<>>
    ELSE IF text[Len(text)] \in Whitespace THEN Rstrip(SubSeq(text, 1, Len(text) - 1))
    ELSE text

EndsWithNewline(text) == text # <<>> /\ text[Len(text)] = "\n"

_is_special_key(text) == text \in SPECIAL_KEYS

RECURSIVE Join(_)
\* "".join(chunks)
Join(chunks) == IF chunks = <<>> THEN <<>> ELSE Head(chunks) \o Join(Tail(chunks))

Tok(k, c, x) == [k |-> k, c |-> c, x |-> x]

Min(a, b) == IF a < b THEN a ELSE b

-----------------------------------------------------------------------------
(* The PowerShell process: it reads stdin a line at a time and runs the    *)
(* statements of the line, separated by ";", in order.                     *)

RECURSIVE SplitOn(_, _)
\* the segments of s between occurrences of sep
SplitOn(s, sep) ==
    IF \A i \in 1..Len(s) : s[i] # sep THEN <<s>>
    ELSE LET i == CHOOSE i \in 1..Len(s) : s[i] = sep /\ \A j \in 1..(i - 1) : s[j] # sep
         IN  <<SubSeq(s, 1, i - 1)>> \o SplitOn(SubSeq(s, i + 1, Len(s)), sep)

Words(seg) == SelectSeq(seg, LAMBDA t : t \notin Whitespace)

HasNewline(s) == \E i \in 1..Len(s) : s[i] = "\n"
FirstNewline(s) == CHOOSE i \in 1..Len(s) : s[i] = "\n" /\ \A j \in 1..(i - 1) : s[j] # "\n"

\* "$exit_code = if ($?) { if ($null -ne $LASTEXITCODE) { $LASTEXITCODE } else { 0 } } else { 1 }"
ExitCodeExpr(success, lastExit) ==
    IF success THEN (IF lastExit # PsNull THEN lastExit ELSE 0) ELSE 1

\* One statement.  st = [out, ok, last, ec, spin, marked, cwd, var]: the output
\* written so far, $?, $LASTEXITCODE, $exit_code, whether the shell is stuck in an
\* endless command, the number of END markers written, the current directory and
\* whether the environment variable is set.  id tags the output.
RunStmt(words, st, id) ==
    IF st.spin \/ words = <<>> THEN st
    ELSE IF words = <<"e">> THEN
        [st EXCEPT !.out = Append(@, Tok("o", id, 0)), !.ok = TRUE]
    ELSE IF words = <<"n">> THEN
        [st EXCEPT !.ok = FALSE, !.last = 1]
    ELSE IF words = <<"s">> THEN
        [st EXCEPT !.spin = TRUE]
    ELSE IF words = <<"cls">> THEN
        [st EXCEPT !.ok = TRUE]
    ELSE IF words = <<"cd">> THEN
        [st EXCEPT !.cwd = "other", !.ok = TRUE]
    ELSE IF words = <<"set">> THEN
        [st EXCEPT !.var = TRUE, !.ok = TRUE]
    ELSE IF words = <<"get">> THEN
        [st EXCEPT !.out = IF st.var THEN Append(@, Tok("v", id, 0)) ELSE @, !.ok = TRUE]
    ELSE IF words = <<"WB">> THEN
        [st EXCEPT !.out = Append(@, Tok("B", id, 0)), !.ok = TRUE]
    ELSE IF words = <<"X">> THEN
        [st EXCEPT !.ec = ExitCodeExpr(st.ok, st.last), !.ok = TRUE]
    ELSE IF words = <<"WP">> THEN
        [st EXCEPT !.out = Append(@, [k |-> "P", c |-> id, x |-> st.ec, d |-> st.cwd]),
                   !.ok = TRUE]
    ELSE IF words = <<"WE">> THEN
        [st EXCEPT !.out = Append(@, Tok("E", id, 0)), !.ok = TRUE, !.marked = @ + 1]
    ELSE \* "f", or text that is no command: an error message, $? is False
        [st EXCEPT !.out = Append(@, Tok("o", id, 0)), !.ok = FALSE]

RECURSIVE RunStmts(_, _, _)
RunStmts(stmts, st, id) ==
    IF stmts = <<>> THEN st
    ELSE RunStmts(Tail(stmts), RunStmt(Words(Head(stmts)), st, id), id)

\* The shell runs one complete line of its input.
RunLine(line, success, lastExit, marked, cwd, var) ==
    LET id == IF \E i \in 1..Len(line) : line[i] = "WE" THEN marked + 1 ELSE 0
    IN  RunStmts(SplitOn(line, ";"),
                 [out |-> <<>>, ok |-> success, last |-> lastExit, ec |-> 0,
                  spin |-> FALSE, marked |-> marked, cwd |-> cwd, var |-> var],
                 id)

ShellRunLine ==
    /\ process = "alive"
    /\ ~psSpin
    /\ HasNewline(stdin)
    /\ LET n  == FirstNewline(stdin)
           st == RunLine(SubSeq(stdin, 1, n - 1), psSuccess, psLastExit, psMarked,
                         psCwd, psVar)
       IN  /\ stdin' = SubSeq(stdin, n + 1, Len(stdin))
           /\ pipe' = pipe \o st.out
           /\ psSuccess' = st.ok
           /\ psLastExit' = st.last
           /\ psSpin' = st.spin
           /\ psMarked' = st.marked
           /\ psCwd' = st.cwd
           /\ psVar' = st.var
    /\ UNCHANGED <<backendVars, output_buffer, command_running, nWrites, nMarked,
                   evicted, observed, pc, ex, ret>>

\* A command that never ends prints one more line (the pipe blocks it when full).
ShellSpin ==
    /\ process = "alive"
    /\ psSpin
    /\ Len(pipe) < MaxPipe
    /\ pipe' = Append(pipe, Tok("o", psMarked + 1, 0))
    /\ UNCHANGED <<backendVars, output_buffer, command_running, stdin, shellVars,
                   nWrites, nMarked, evicted, observed, pc, ex, ret>>

\* The shell process ends by itself (exit, crash, killed from outside).
ProcessExits ==
    /\ process = "alive"
    /\ process' = "exited"
    /\ stdin' = <<>>
    /\ psSpin' = FALSE
    /\ UNCHANGED <<initialized, closed, reader_thread, stop_reader, output_buffer,
                   command_running, pipe, psSuccess, psLastExit, psMarked, psCwd, psVar,
                   nWrites,
                   nMarked, evicted, observed, historyVars, pc, ex, ret>>

-----------------------------------------------------------------------------
(* The output buffer and the reader thread *)

\* a buffer that never drops its oldest chunk
DequeAppendUnbounded(buf, chunk) == Append(buf, chunk)

\* a full buffer that refuses the new chunk instead of dropping its oldest
DequeAppendDropNewest(buf, chunk) ==
    IF Len(buf) >= HISTORY_LIMIT THEN buf ELSE Append(buf, chunk)

\* deque(maxlen=HISTORY_LIMIT).append
DequeAppend(buf, chunk) ==
    LET b == Append(buf, chunk)
    IN  IF Len(b) > HISTORY_LIMIT THEN Tail(b) ELSE b

\* _get_buffered_output: the text returned; the buffer is emptied when clear
_get_buffered_output(buf) == Join(buf)

\* a run of close() has closed the process's stdout (it stays closed)
StdoutClosed == \E i \in 1..Len(closeLog) : closeLog[i] = "stdout"

\* a reader whose loop ends after one chunk
ReaderTurnOnce(logged) ==
    /\ reader_thread = "running"
    /\ pipe # <<>>
    /\ \E n \in 1..Min(READ_CHUNK_SIZE, Len(pipe)) :
        /\ output_buffer' = DequeAppend(output_buffer, SubSeq(pipe, 1, n))
        /\ arrived' = IF logged THEN Append(arrived, SubSeq(pipe, 1, n)) ELSE arrived
        /\ pipe' = SubSeq(pipe, n + 1, Len(pipe))
    /\ evicted' = (evicted \/ Len(output_buffer) = HISTORY_LIMIT)
    /\ reader_thread' = "done"
    /\ UNCHANGED <<process, initialized, closed, stop_reader, closeLog, closeCalled,
                   nStarted, nCleared, sideVars, decoder, written, command_running, stdin,
                   shellVars, nWrites, nMarked, observed, pc, ex, ret>>

\* One turn of _read_output's loop: a read of up to READ_CHUNK_SIZE, then the append
\* under the lock.  The thread is alive after it; when the reader has been told to
\* stop, the loop test that follows ends the loop (ReaderEOF) and no further read
\* is made.  With logged, the chunk is also recorded in arrived.  A read that was
\* under way when close() closed stdout may still return what the shell writes (the
\* platform decides between this turn and the failure of the read, which is
\* ReaderEOF).
ReaderTurn(logged) ==
    /\ reader_thread = "running"
    /\ rtodo = <<>>
    /\ pipe # <<>>
    /\ \E n \in 1..Min(READ_CHUNK_SIZE, Len(pipe)) :
        /\ output_buffer' = DequeAppend(output_buffer, SubSeq(pipe, 1, n))
        /\ arrived' = IF logged THEN Append(arrived, SubSeq(pipe, 1, n)) ELSE arrived
        /\ pipe' = SubSeq(pipe, n + 1, Len(pipe))
    /\ evicted' = (evicted \/ Len(output_buffer) = HISTORY_LIMIT)
    /\ rtodo' = IF stop_reader THEN <<"top">> ELSE rtodo
    /\ UNCHANGED <<process, initialized, closed, reader_thread, stop_reader, closeLog,
                   closeCalled, nStarted, nCleared, hostVars, browserVars, output_lock,
                   todo, rchunk, decoder, written, command_running, stdin,
                   shellVars, nWrites, nMarked, observed, pc, ex, ret>>

ReaderRead == ReaderTurn(FALSE)

\* the same turn in the specifications that follow the arrival of chunks
ReaderReadLogged == Len(arrived) < MaxChunks /\ ReaderTurn(TRUE)

-----------------------------------------------------------------------------
(* The reader thread byte by byte.  A byte is a record [c, i, w]: byte i of  *)
(* the w bytes that encode the character c in UTF-8.                         *)

\* the characters the shell prints, with the length of their encoding
Utf8Width == [a |-> 1, e2 |-> 2, E3 |-> 3]
Chars == DOMAIN Utf8Width

\* str.encode("utf-8") of one character
Encode(c) == [i \in 1..Utf8Width[c] |-> [c |-> c, i |-> i, w |-> Utf8Width[c]]]

\* U+FFFD, which errors="replace" puts for bytes that decode to nothing
Replacement == "?"

RECURSIVE Utf8DecodeStateless(_, _, _)
\* a decoder that keeps no bytes between two calls
Utf8DecodeStateless(pending, bytes, text) ==
    IF bytes = <<>>
    THEN [text |-> IF pending # <<>> THEN Append(text, Replacement) ELSE text,
          pending |-> <<>>]
    ELSE LET b    == Head(bytes)
             rest == Tail(bytes)
             t1   == IF pending # <<>> THEN Append(text, Replacement) ELSE text
         IN  IF b.i = 1
             THEN IF b.w = 1 THEN Utf8DecodeStateless(<<>>, rest, Append(t1, b.c))
                  ELSE Utf8DecodeStateless(<<b>>, rest, t1)
             ELSE IF pending # <<>> /\ pending[Len(pending)].c = b.c
                                    /\ pending[Len(pending)].i = b.i - 1
                  THEN IF b.i = b.w THEN Utf8DecodeStateless(<<>>, rest, Append(text, b.c))
                       ELSE Utf8DecodeStateless(Append(pending, b), rest, text)
                  ELSE Utf8DecodeStateless(<<>>, rest, Append(t1, Replacement))

RECURSIVE Utf8Decode(_, _, _)
\* self._decoder.decode(chunk, False) of the incremental UTF-8 decoder with
\* errors="replace": pending are the bytes kept from earlier calls; the result is
\* the text decoded and the bytes kept for the next call
Utf8Decode(pending, bytes, text) ==
    IF bytes = <<>>
    THEN [text |-> text, pending |-> pending]
    ELSE LET b    == Head(bytes)
             rest == Tail(bytes)
             t1   == IF pending # <<>> THEN Append(text, Replacement) ELSE text
         IN  IF b.i = 1
             THEN IF b.w = 1 THEN Utf8Decode(<<>>, rest, Append(t1, b.c))
                  ELSE Utf8Decode(<<b>>, rest, t1)
             ELSE IF pending # <<>> /\ pending[Len(pending)].c = b.c
                                    /\ pending[Len(pending)].i = b.i - 1
                  THEN IF b.i = b.w THEN Utf8Decode(<<>>, rest, Append(text, b.c))
                       ELSE Utf8Decode(Append(pending, b), rest, text)
                  ELSE Utf8Decode(<<>>, rest, Append(t1, Replacement))

\* the shell prints one more character
ShellWrites ==
    \E c \in Chars :
        /\ process = "alive"
        /\ Len(written) + Utf8Width[c] <= MaxWritten
        /\ pipe' = pipe \o Encode(c)
        /\ written' = written \o Encode(c)
        /\ UNCHANGED <<process, initialized, closed, reader_thread, stop_reader, closeLog,
                       closeCalled, nStarted, arrived, nCleared, sideVars, decoder, output_buffer,
                       command_running, stdin, shellVars, nWrites, nMarked, evicted,
                       observed, pc, ex, ret>>

\* the byte 0xFF, which is part of no UTF-8 encoding
BadByte == [c |-> "xFF", i |-> 0, w |-> 1]

\* what a shell that prints broken text writes at once: a character, a character
\* cut short after its first bytes, or the byte 0xFF
Pieces ==
    {Encode(c) : c \in Chars}
        \cup UNION {{SubSeq(Encode(c), 1, n) : n \in 1..(Utf8Width[c] - 1)} : c \in Chars}
        \cup {<<BadByte>>}

\* the shell prints one more piece
ShellWritesAny ==
    \E p \in Pieces :
        /\ process = "alive"
        /\ Len(written) + Len(p) <= MaxBroken
        /\ pipe' = pipe \o p
        /\ written' = written \o p
        /\ UNCHANGED <<process, initialized, closed, reader_thread, stop_reader, closeLog,
                       closeCalled, nStarted, arrived, nCleared, sideVars, decoder, output_buffer,
                       command_running, stdin, shellVars, nWrites, nMarked, evicted,
                       observed, pc, ex, ret>>

\* a flush that throws the kept bytes away
Utf8FlushDrop(pending) == <<>>

\* self._decoder.decode(b"", True): the text for the bytes the decoder still keeps
Utf8Flush(pending) == IF pending # <<>> THEN <<Replacement>> ELSE <<>>

\* One turn of _read_output's loop on bytes: a read of up to READ_CHUNK_SIZE bytes,
\* the decoding, and the append of the text when it is not empty.  The thread is
\* alive after it; when the reader has been told to stop, the loop test that
\* follows ends the loop and the flush is made (ReaderEOF).
ReaderDecode ==
    /\ reader_thread = "running"
    /\ rtodo = <<>>
    /\ pipe # <<>>
    /\ \E n \in 1..Min(READ_CHUNK_SIZE, Len(pipe)) :
        LET decoded == Utf8Decode(decoder, SubSeq(pipe, 1, n), <<>>)
        IN  /\ pipe' = SubSeq(pipe, n + 1, Len(pipe))
            /\ decoder' = decoded.pending
            /\ IF decoded.text # <<>>
               THEN /\ output_buffer' = DequeAppend(output_buffer, decoded.text)
                    /\ arrived' = Append(arrived, decoded.text)
                    /\ evicted' = (evicted \/ Len(output_buffer) = HISTORY_LIMIT)
               ELSE UNCHANGED <<output_buffer, arrived, evicted>>
    /\ rtodo' = IF stop_reader THEN <<"top">> ELSE rtodo
    /\ UNCHANGED <<process, initialized, closed, reader_thread, stop_reader, closeLog,
                   closeCalled, nStarted, nCleared, hostVars, browserVars, output_lock,
                   todo, rchunk, written, command_running, stdin, shellVars,
                   nWrites, nMarked, observed, pc, ex, ret>>

\* The loop ends: its test finds the stop flag set, the read returns no bytes (the
\* process has ended and nothing is left to read) or the read fails on the closed
\* stdout; what the decoder still keeps is flushed into the buffer, in an append
\* of its own under the lock.  The thread is still alive after the append: it has
\* its return from _read_output to make (ReaderExit).
ReaderEOF ==
    /\ reader_thread = "running"
    /\ rtodo # <<"end">>
    /\ \/ stop_reader
       \/ rtodo = <<>> /\ process # "alive" /\ pipe = <<>>
       \/ rtodo = <<>> /\ StdoutClosed
    /\ rtodo' = <<"end">>
    /\ decoder' = <<>>
    /\ LET final == Utf8Flush(decoder)
       IN  IF final # <<>>
           THEN /\ output_buffer' = DequeAppend(output_buffer, final)
                /\ arrived' = Append(arrived, final)
                /\ evicted' = (evicted \/ Len(output_buffer) = HISTORY_LIMIT)
           ELSE UNCHANGED <<output_buffer, arrived, evicted>>
    /\ UNCHANGED <<process, initialized, closed, reader_thread, stop_reader, closeLog,
                   closeCalled, nStarted, nCleared, hostVars, browserVars, output_lock,
                   todo, rchunk, written, command_running, stdin, pipe, shellVars,
                   nWrites, nMarked, observed, pc, ex, ret>>

\* the reader has made its flush: the loop of _read_output is behind it
ReaderFlushed == reader_thread = "done" \/ rtodo = <<"end">>

\* _read_output returns after its flush and the reader thread ends; nothing else
\* changes, and nothing is told to the backend
ReaderExit ==
    /\ reader_thread = "running"
    /\ rtodo = <<"end">>
    /\ reader_thread' = "done"
    /\ rtodo' = <<>>
    /\ UNCHANGED <<process, initialized, closed, stop_reader, closeLog, closeCalled,
                   nStarted, nCleared, hostVars, browserVars, output_lock, todo, rchunk,
                   decoder, arrived, written, output_buffer, evicted, command_running,
                   stdin, pipe, shellVars, nWrites, nMarked, observed, pc, ex, ret>>

\* a drain that leaves the newest chunk in the buffer
DrainedBufferKeepNewest(buf, clear) ==
    IF clear /\ buf # <<>> THEN <<buf[Len(buf)]>> ELSE buf

\* _get_buffered_output: the buffer it leaves
DrainedBuffer(buf, clear) == IF clear THEN <<>> ELSE buf

\* _get_buffered_output(clear=True) called by the caller thread
Drain ==
    /\ pc = "idle"
    /\ ret' = [op |-> "drain", val |-> "ok", text |-> _get_buffered_output(output_buffer)]
    /\ output_buffer' = DrainedBuffer(output_buffer, TRUE)
    /\ evicted' = FALSE
    /\ nCleared' = Len(arrived)
    /\ UNCHANGED sideVars
    /\ UNCHANGED <<process, initialized, closed, reader_thread, stop_reader, closeLog,
                   closeCalled, nStarted, decodeVars, command_running, stdin, pipe,
                   shellVars, nWrites, nMarked, observed, pc, ex>>

-----------------------------------------------------------------------------
(* WindowsTerminal's operations, run by the caller thread *)

ProcessAlive == process = "alive"

HasEnd(text) == \E i \in 1..Len(text) : text[i].k = "E"

\* a send_keys that appends the marker command to blank text too
SendDataMarkBlank(text, enter, internal) ==
    LET marked == ~_is_special_key(text) /\ ~internal
        t1 == IF marked THEN Rstrip(text) \o metadata_cmd ELSE text
    IN  IF enter /\ ~EndsWithNewline(t1) THEN Append(t1, "\n") ELSE t1

\* what send_keys hands to _write_to_stdin
SendData(text, enter, internal) ==
    LET marked == ~_is_special_key(text) /\ ~IsBlank(text) /\ ~internal
        t1 == IF marked THEN Rstrip(text) \o metadata_cmd ELSE text
    IN  IF enter /\ ~EndsWithNewline(t1) THEN Append(t1, "\n") ELSE t1

\* The caller-side state send_keys and its callers change.
Caller == [buf |-> output_buffer, ev |-> evicted, flag |-> command_running,
           marked |-> nMarked, obs |-> observed, stdin |-> stdin, writes |-> nWrites]

SetCaller(c) ==
    /\ output_buffer' = c.buf
    /\ evicted' = c.ev
    /\ command_running' = c.flag
    /\ nMarked' = c.marked
    /\ observed' = c.obs
    /\ stdin' = c.stdin
    /\ nWrites' = c.writes

\* the locals of the caller's loops and reads (_setup_prompt, execute, is_running)
\* at their start
ExIdle == [elapsed |-> 0, since |-> 0, last |-> <<>>, seen |-> 0, quiet |-> 0]

\* the counters at the start of execute's poll loop; seen and quiet follow the
\* arrival of chunks: how many had arrived at the last poll, and how many polls in
\* a row have found no new one
ExStart == [ExIdle EXCEPT !.seen = Len(arrived)]

\* a send_keys that clears the buffer for every text it is given
send_keys_always_clears(text, enter, internal) ==
    LET special == _is_special_key(text)
        marked  == ~special /\ ~IsBlank(text) /\ ~internal
    IN  [buf    |-> <<>>,
         ev     |-> FALSE,
         flag   |-> IF marked THEN TRUE ELSE command_running,
         marked |-> IF marked THEN nMarked + 1 ELSE nMarked,
         obs    |-> IF marked THEN FALSE ELSE observed,
         stdin  |-> stdin \o SendData(text, enter, internal),
         writes |-> nWrites + 1]

\* send_keys on a live process, the reader aside: the buffer is cleared for a new
\* command, the flag is set and the marker appended for a non-blank one, the text
\* is written.
send_keys(text, enter, internal) ==
    LET special == _is_special_key(text)
        marked  == ~special /\ ~IsBlank(text) /\ ~internal
    IN  [buf    |-> IF ~special /\ ~internal THEN <<>> ELSE output_buffer,
         ev     |-> IF ~special /\ ~internal THEN FALSE ELSE evicted,
         flag   |-> IF marked THEN TRUE ELSE command_running,
         marked |-> IF marked THEN nMarked + 1 ELSE nMarked,
         obs    |-> IF marked THEN FALSE ELSE observed,
         stdin  |-> stdin \o SendData(text, enter, internal),
         writes |-> nWrites + 1]

\* a send_keys that clears the buffer before it finds the process gone
send_keys_clear_then_raise == [Caller EXCEPT !.buf = <<>>, !.ev = FALSE]

\* send_keys on a process that was never started or has exited: RuntimeError is
\* raised before anything is touched
send_keys_not_running == Caller

\* send_keys up to the end of its clear, where the buffer lock is released: the
\* buffer is cleared for a new command, nothing else is touched yet
send_keys_cleared(text, enter, internal) ==
    [Caller EXCEPT !.buf = send_keys(text, enter, internal).buf,
                   !.ev  = send_keys(text, enter, internal).ev]

\* send_keys from there: the flag, the marker, the write; the buffer is what the
\* reader thread has made of it since the clear
send_keys_written(text, enter, internal) ==
    [send_keys(text, enter, internal) EXCEPT !.buf = output_buffer, !.ev = evicted]

\* One call of send_keys by the caller, up to the end of its clear: RuntimeError
\* when the process is not running.
SendKeysCall(text, enter, internal) ==
    /\ pc = "idle"
    /\ \/ /\ ProcessAlive
          /\ nWrites < MaxWrites
          /\ SetCaller(send_keys_cleared(text, enter, internal))
          /\ pc' = "send"
          /\ ret' = [op |-> "send_keys", val |-> "sending", text |-> text,
                     enter |-> enter, internal |-> internal]
       \/ /\ ~ProcessAlive
          /\ SetCaller(send_keys_not_running)
          /\ pc' = pc
          /\ ret' = [op |-> "send_keys", val |-> "RuntimeError", text |-> text,
                     enter |-> enter, internal |-> internal]
    /\ UNCHANGED <<backendVars, pipe, shellVars, ex>>

\* the arguments of the send_keys the caller is in (execute sends its command
\* with enter, not internal)
Sending ==
    IF ret.op = "execute"
    THEN [text |-> ret.command, enter |-> TRUE, internal |-> FALSE]
    ELSE [text |-> ret.text, enter |-> ret.enter, internal |-> ret.internal]

\* the rest of send_keys: the flag is set, the data is written and flushed.  A
\* write to a process that has ended meanwhile fails; _write_to_stdin logs the
\* error and send_keys returns.  execute goes on to its poll loop.
SendKeysWrite ==
    /\ pc = "send"
    /\ LET c == send_keys_written(Sending.text, Sending.enter, Sending.internal)
       IN  SetCaller(IF ProcessAlive THEN c ELSE [c EXCEPT !.stdin = stdin])
    /\ IF ret.op = "execute"
       THEN /\ pc' = "poll"
            /\ ex' = ExStart
            /\ ret' = [ret EXCEPT !.val = "RUNNING"]
       ELSE /\ pc' = "idle"
            /\ ex' = ex
            /\ ret' = [ret EXCEPT !.val = IF ProcessAlive THEN "ok" ELSE "logged"]
    /\ UNCHANGED <<backendVars, pipe, shellVars>>

\* the commands a caller sends: a blank line and a command
Texts == { <<>>, <<"e">> }

\* the rest of a send_keys whose write fails: the process ends under the write,
\* _write_to_stdin logs the BrokenPipeError/OSError and returns, and so does
\* send_keys; the buffer was cleared and the flag set before the write
SendKeysWriteFails(text, enter, internal) ==
    /\ pc = "send"
    /\ ProcessAlive
    /\ SetCaller([send_keys_written(text, enter, internal) EXCEPT !.stdin = <<>>])
    /\ process' = "exited"
    /\ psSpin' = FALSE
    /\ pc' = "idle"
    /\ ret' = [op |-> "send_keys", val |-> "logged", text |-> text, enter |-> enter,
               internal |-> internal]
    /\ UNCHANGED <<initialized, closed, reader_thread, stop_reader, historyVars, pipe,
                   psSuccess, psLastExit, psMarked, psCwd, psVar, ex>>

\* the write of the command the caller is sending fails
SendKeysBrokenPipe ==
    ret.op = "send_keys" /\ SendKeysWriteFails(ret.text, ret.enter, ret.internal)

\* the caller sends a command, as the session controller does
SendKeys == \E text \in Texts : SendKeysCall(text, TRUE, FALSE)

\* every kind of text send_keys tells apart
AllTexts == { <<>>, <<" ">>, <<"\n">>, <<"e">>, <<"e", " ">>, <<"e", "\n">>,
              <<" ", "e">>, CTRL_C, <<"C-c">>, <<"C-C">> }

\* a command that gets a marker is sent with its newline
Enters(text, internal) ==
    IF ~_is_special_key(text) /\ ~IsBlank(text) /\ ~internal THEN {TRUE} ELSE BOOLEAN

\* the caller sends any text, internal or not
SendAny ==
    \E text \in AllTexts, internal \in BOOLEAN :
        \E enter \in Enters(text, internal) : SendKeysCall(text, enter, internal)

\* read_screen: the buffered text is returned, nothing is cleared
ReadScreen ==
    /\ pc = "idle"
    /\ ret' = [op |-> "read_screen", val |-> "ok",
               text |-> _get_buffered_output(output_buffer)]
    /\ UNCHANGED <<backendVars, output_buffer, command_running, stdin, pipe, shellVars,
                   nWrites, nMarked, evicted, observed, pc, ex>>

\* a clear_screen that sends Clear-Host as a user command
ClearScreenAsCommand ==
    /\ pc = "idle"
    /\ \/ /\ ProcessAlive
          /\ nWrites < MaxWrites
          /\ SetCaller(send_keys(<<"cls">>, TRUE, FALSE))
          /\ pc' = "clear"
          /\ ret' = [op |-> "clear_screen", val |-> "sleep"]
       \/ /\ ~ProcessAlive
          /\ SetCaller(send_keys_not_running)
          /\ pc' = pc
          /\ ret' = [op |-> "clear_screen", val |-> "RuntimeError"]
    /\ UNCHANGED <<backendVars, pipe, shellVars, ex>>

\* clear_screen up to its sleep: Clear-Host is sent as an internal command, for
\* which send_keys does not touch the buffer
ClearScreen ==
    /\ pc = "idle"
    /\ \/ /\ ProcessAlive
          /\ nWrites < MaxWrites
          /\ SetCaller(send_keys(<<"cls">>, TRUE, TRUE))
          /\ pc' = "clear"
          /\ ret' = [op |-> "clear_screen", val |-> "sleep"]
       \/ /\ ~ProcessAlive
          /\ SetCaller(send_keys_not_running)
          /\ pc' = pc
          /\ ret' = [op |-> "clear_screen", val |-> "RuntimeError"]
    /\ UNCHANGED <<backendVars, pipe, shellVars, ex>>

\* clear_screen after its sleep: the buffer is drained under the lock
ClearScreenDrain ==
    /\ pc = "clear"
    /\ output_buffer' = DrainedBuffer(output_buffer, TRUE)
    /\ evicted' = FALSE
    /\ pc' = "drained"
    /\ UNCHANGED <<backendVars, command_running, stdin, pipe, shellVars, nWrites, nMarked,
                   observed, ex, ret>>

\* the end of clear_screen: the flag is reset
ClearScreenDone ==
    /\ pc = "drained"
    /\ command_running' = FALSE
    /\ pc' = "idle"
    /\ ret' = [op |-> "clear_screen", val |-> "ok"]
    /\ UNCHANGED <<backendVars, output_buffer, evicted, stdin, pipe, shellVars, nWrites,
                   nMarked, observed, ex>>

\* an interrupt() that reports success whatever the process does
interrupt_returns_true(delivered) == TRUE

\* interrupt: the value returned.  delivered: the write reached the process's stdin
\* (_write_to_stdin logs a BrokenPipeError/OSError and returns normally).
interrupt_returns(delivered) == ProcessAlive

\* interrupt: Ctrl+C is written without a newline and the flag is reset
interrupt ==
    IF ProcessAlive
    THEN [send_keys(CTRL_C, FALSE, FALSE) EXCEPT !.flag = FALSE]
    ELSE Caller

\* interrupt().  The process may end between the poll() of send_keys and the write:
\* the write then fails and nothing reaches the shell.
InterruptCall(delivered) ==
    /\ pc = "idle"
    /\ ProcessAlive => nWrites < MaxWrites
    /\ ~ProcessAlive => ~delivered
    /\ IF ProcessAlive /\ ~delivered
       THEN /\ SetCaller([interrupt EXCEPT !.stdin = <<>>])
            /\ process' = "exited"
            /\ psSpin' = FALSE
       ELSE /\ SetCaller(interrupt)
            /\ UNCHANGED <<process, psSpin>>
    /\ ret' = [op |-> "interrupt", val |-> interrupt_returns(delivered),
               written |-> delivered]
    /\ UNCHANGED <<initialized, closed, reader_thread, stop_reader, historyVars, pipe,
                   psSuccess, psLastExit, psMarked, psCwd, psVar, pc, ex>>

Interrupt == \E delivered \in BOOLEAN : InterruptCall(delivered)

\* the end of is_running, on the text it has read from the screen: the value
\* returned and the flag afterwards
is_running_content(content) ==
    IF HasEnd(content) THEN [val |-> FALSE, flag |-> FALSE]
    ELSE [val |-> command_running, flag |-> command_running]

\* is_running, the reader aside: the value returned and the flag afterwards
is_running ==
    IF ~initialized \/ process = "none" THEN [val |-> FALSE, flag |-> command_running]
    ELSE IF process # "alive" THEN [val |-> FALSE, flag |-> FALSE]
    ELSE is_running_content(_get_buffered_output(output_buffer))

\* is_running up to the end of read_screen, where the buffer lock is released: it
\* returns at once on a backend that is not initialized or whose process has
\* ended; otherwise the text of the buffer is copied
IsRunning ==
    /\ pc = "idle"
    /\ IF ~initialized \/ ~ProcessAlive
       THEN /\ command_running' = is_running.flag
            /\ ret' = [op |-> "is_running", val |-> FALSE,
                       afterCompleted |-> (ret.op = "execute" /\ ret.val = "COMPLETED")]
            /\ UNCHANGED <<pc, ex>>
       ELSE /\ pc' = "copied"
            /\ ex' = [ExIdle EXCEPT !.last = _get_buffered_output(output_buffer)]
            /\ UNCHANGED <<command_running, ret>>
    /\ UNCHANGED <<backendVars, output_buffer, stdin, pipe, shellVars, nWrites, nMarked,
                   evicted, observed>>

\* the end of is_running: the copy is searched for the END marker, the flag is
\* reset when it is there, the value is returned
IsRunningDone ==
    /\ pc = "copied"
    /\ command_running' = is_running_content(ex.last).flag
    /\ observed' = (observed \/ HasEnd(ex.last))
    /\ ret' = [op |-> "is_running", val |-> is_running_content(ex.last).val,
               afterCompleted |-> (ret.op = "execute" /\ ret.val = "COMPLETED")]
    /\ pc' = "idle"
    /\ ex' = ExIdle
    /\ UNCHANGED <<backendVars, output_buffer, stdin, pipe, shellVars, nWrites, nMarked,
                   evicted>>

\* what a freshly started shell prints before it reads its first command
StartupOutputs == { <<>>, <<Tok("o", 0, 0)>> }

\* an initialize() that starts a session whether or not one was started
InitializeAgain ==
    /\ pc = "idle"
    /\ process' = "alive"
    /\ stop_reader' = FALSE
    /\ reader_thread' = "running"
    /\ nStarted' = nStarted + 1
    /\ stdin' = <<>>
    /\ pipe' \in StartupOutputs
    /\ psSuccess' = TRUE
    /\ psLastExit' = PsNull
    /\ psSpin' = FALSE
    /\ psMarked' = psMarked
    /\ psCwd' = "orig"
    /\ psVar' = FALSE
    /\ pc' = "setup"
    /\ ex' = ExIdle
    /\ ret' = [op |-> "initialize", val |-> "ok"]
    /\ UNCHANGED <<initialized, closed, output_buffer, command_running, nWrites, nMarked,
                   evicted, observed, closeLog, closeCalled, readerVars>>

\* initialize: nothing when already initialized; otherwise _start_session up to the
\* wait of _setup_prompt: the process and the reader thread are started.
Initialize ==
    /\ pc = "idle"
    /\ IF initialized
       THEN /\ ret' = [op |-> "initialize", val |-> "already"]
            /\ UNCHANGED <<process, reader_thread, stop_reader, nStarted, stdin, pipe,
                           shellVars, pc>>
       ELSE /\ process' = "alive"
            /\ stop_reader' = FALSE
            /\ reader_thread' = "running"
            /\ nStarted' = nStarted + 1
            /\ stdin' = <<>>
            /\ pipe' \in StartupOutputs
            /\ psSuccess' = TRUE
            /\ psLastExit' = PsNull
            /\ psSpin' = FALSE
            /\ psMarked' = psMarked
            /\ psCwd' = "orig"
            /\ psVar' = FALSE
            /\ pc' = "setup"
            /\ ret' = [op |-> "initialize", val |-> "ok"]
    /\ ex' = ExIdle
    /\ UNCHANGED <<initialized, closed, output_buffer, command_running, nWrites, nMarked,
                   evicted, observed, closeLog, closeCalled, readerVars>>

\* initialize() on a shell whose start-up output is printed by ShellWrites
StartSession == ~initialized /\ Initialize /\ pipe' = <<>>

\* one turn of _setup_prompt's wait: it ends when the buffer holds output or after
\* MaxSetupPolls sleeps
SetupPoll ==
    /\ pc = "setup"
    /\ IF ex.elapsed < MaxSetupPolls /\ output_buffer = <<>>
       THEN /\ ex' = [ex EXCEPT !.elapsed = @ + 1]
            /\ pc' = pc
       ELSE /\ ex' = ExIdle
            /\ pc' = "ready"
    /\ UNCHANGED <<backendVars, output_buffer, command_running, stdin, pipe, shellVars,
                   nWrites, nMarked, evicted, observed, ret>>

\* the end of _setup_prompt: the start-up output is dropped under the lock
SetupClear ==
    /\ pc = "ready"
    /\ output_buffer' = <<>>
    /\ evicted' = FALSE
    /\ nCleared' = Len(arrived)
    /\ UNCHANGED sideVars
    /\ pc' = "cleared"
    /\ UNCHANGED <<process, initialized, closed, reader_thread, stop_reader,
                   command_running, stdin, pipe, shellVars, nWrites, nMarked, observed,
                   closeLog, closeCalled, nStarted, decodeVars, ex, ret>>

\* the end of initialize: the backend is marked initialized
SetupDone ==
    /\ pc = "cleared"
    /\ initialized' = TRUE
    /\ pc' = IF ret.op = "execute" /\ ret.val = "RESETTING" THEN "reset" ELSE "idle"
    /\ UNCHANGED <<process, closed, reader_thread, stop_reader, output_buffer, evicted,
                   command_running, stdin, pipe, shellVars, nWrites, nMarked, observed,
                   historyVars, ex, ret>>

\* a close() that joins the reader before it closes the streams
NextCloseStepJoinFirst(at) ==
    CASE at = "stop"      -> "join"
      [] at = "join"      -> "streams"
      [] at = "streams"   -> "terminate"
      [] at = "terminate" -> "mark"
      [] at = "kill"      -> "mark"

\* The statements of close() after the stop flag is set, in the order of the code,
\* as positions of the caller thread.
NextCloseStep(at) ==
    CASE at = "stop"      -> "streams"
      [] at = "streams"   -> "join"
      [] at = "join"      -> "terminate"
      [] at = "terminate" -> "mark"
      [] at = "kill"      -> "mark"

InClose == pc \in {"streams", "join", "terminate", "kill", "mark"}

\* what is left alone by every step of close()
CloseFrame ==
    UNCHANGED <<initialized, output_buffer, command_running, stdin, psSuccess, psLastExit,
                psMarked, psCwd, psVar, nWrites, nMarked, evicted, observed, nStarted, readerVars, ex>>

\* close: nothing when already closed; otherwise the reader is told to stop
Close ==
    /\ pc = "idle"
    /\ closeCalled' = TRUE
    /\ IF closed
       THEN /\ ret' = [op |-> "close", val |-> "ok"]
            /\ UNCHANGED <<stop_reader, closeLog, pc>>
       ELSE /\ stop_reader' = TRUE
            /\ closeLog' = Append(closeLog, "stop")
            /\ pc' = NextCloseStep("stop")
            /\ ret' = [op |-> "close", val |-> "closing"]
    /\ UNCHANGED <<process, closed, reader_thread, pipe, psSpin>>
    /\ CloseFrame

\* stdin, then stdout, are closed when there is a process; an error of either
\* close is logged and the next statement runs
CloseStreams ==
    /\ pc = "streams"
    /\ IF process = "none"
       THEN UNCHANGED <<closeLog, pipe>>
       ELSE \E inOk \in BOOLEAN, outOk \in BOOLEAN :
              /\ closeLog' = closeLog \o <<IF inOk THEN "stdin" ELSE "stdin_error",
                                           IF outOk THEN "stdout" ELSE "stdout_error">>
              /\ pipe' = pipe
    /\ pc' = NextCloseStep("streams")
    /\ UNCHANGED <<process, closed, reader_thread, stop_reader, closeCalled, psSpin, ret>>
    /\ CloseFrame

\* the reader thread is joined when it is alive; the join gives up after
\* READER_THREAD_TIMEOUT
CloseJoin ==
    /\ pc = "join"
    /\ closeLog' = IF reader_thread = "running" THEN Append(closeLog, "join_timeout")
                   ELSE IF reader_thread = "done" THEN Append(closeLog, "join")
                   ELSE closeLog
    /\ pc' = NextCloseStep("join")
    /\ UNCHANGED <<process, closed, reader_thread, stop_reader, closeCalled, pipe, psSpin, ret>>
    /\ CloseFrame

\* terminate() and wait(timeout=5.0) when there is a process: the process ends in
\* time, or terminate()/wait() raises and the error is logged, or the wait times out
CloseTerminate ==
    /\ pc = "terminate"
    /\ IF process = "none"
       THEN /\ pc' = NextCloseStep("terminate")
            /\ UNCHANGED <<process, closeLog, psSpin>>
       ELSE \E outcome \in {"wait", "terminate_error", "wait_timeout"} :
              /\ closeLog' = closeLog \o (IF outcome = "terminate_error"
                                          THEN <<outcome>> ELSE <<"terminate", outcome>>)
              /\ IF outcome = "wait_timeout"
                 THEN /\ process = "alive"
                      /\ pc' = "kill"
                      /\ UNCHANGED <<process, psSpin>>
                 ELSE /\ pc' = NextCloseStep("terminate")
                      /\ process' = "none"
                      /\ psSpin' = FALSE
    /\ UNCHANGED <<closed, reader_thread, stop_reader, closeCalled, pipe, ret>>
    /\ CloseFrame

\* kill() in the handler of TimeoutExpired; the finally clause forgets the process.
\* An exception of kill() leaves the handler and close().
CloseKill ==
    /\ pc = "kill"
    /\ process' = "none"
    /\ psSpin' = FALSE
    /\ \E killed \in BOOLEAN :
         IF killed
         THEN /\ closeLog' = Append(closeLog, "kill")
              /\ pc' = NextCloseStep("kill")
              /\ ret' = ret
         ELSE /\ closeLog' = Append(closeLog, "kill_error")
              /\ pc' = "idle"
              /\ ret' = [op |-> "close", val |-> "raised"]
    /\ UNCHANGED <<closed, reader_thread, stop_reader, closeCalled, pipe>>
    /\ CloseFrame

\* the backend is marked closed
CloseMark ==
    /\ pc = "mark"
    /\ closed' = TRUE
    /\ closeLog' = Append(closeLog, "closed")
    /\ pc' = "idle"
    /\ ret' = [op |-> "close", val |-> "ok"]
    /\ UNCHANGED <<process, reader_thread, stop_reader, closeCalled, pipe, psSpin>>
    /\ CloseFrame

CloseSteps == CloseStreams \/ CloseJoin \/ CloseTerminate \/ CloseKill \/ CloseMark

-----------------------------------------------------------------------------
(* The operations statement by statement, with the buffer lock.  The caller  *)
(* thread runs the statements of todo, the reader thread those of rtodo; a   *)
(* thread holds output_lock from its "acquire" to its "release".             *)

RECURSIVE Times(_, _)
Times(statements, n) == IF n = 0 THEN <<>> ELSE statements \o Times(statements, n - 1)

\* a turn of the reader's loop that takes the lock before it reads
ReaderLoopLockedRead == <<"top", "acquire", "read", "append", "release">>

\* one turn of the loop of _read_output: the test of the stop flag, stdout.read,
\* then the append under the lock
ReaderLoop == <<"top", "read", "acquire", "append", "release">>

\* the end of _setup_prompt and of initialize: a sleep, the clear under the lock,
\* _initialized = True
SetupTail == <<"sleep", "acquire", "clear", "release", "initialized">>

\* the statements of an operation, in the order of the code
Program(op) ==
    CASE op = "initialize" ->
           IF initialized THEN <<>>
           ELSE <<"start">> \o Times(<<"sleep", "acquire", "len", "release">>, MaxSetupPolls)
                \o SetupTail
      [] op = "send_keys" ->
           <<"poll", "acquire", "copy", "clear", "release", "set_flag", "write">>
      [] op = "read_screen" -> <<"acquire", "copy", "release">>
      [] op = "clear_screen" ->
           <<"poll", "write", "sleep", "acquire", "copy", "clear", "release", "clear_flag">>
      [] op = "is_running" -> <<"alive", "acquire", "copy", "release", "end_check">>
      [] op = "interrupt" -> <<"running", "poll", "write", "clear_flag">>

Operations == {"initialize", "send_keys", "read_screen", "clear_screen", "is_running",
               "interrupt"}

\* the statements in which a thread waits for something outside itself
Blocking == {"read", "write", "sleep", "join", "terminate", "start"}

\* what an operation writes to the shell
WriteData(op) ==
    CASE op = "send_keys" -> SendData(<<"e">>, TRUE, FALSE)
      [] op = "clear_screen" -> SendData(<<"cls">>, TRUE, TRUE)
      [] op = "interrupt" -> SendData(CTRL_C, FALSE, FALSE)

\* what the statements of the caller leave alone
CallerFrame ==
    UNCHANGED <<closed, stop_reader, closeLog, closeCalled, decodeVars, hostVars,
                browserVars, psSuccess, psLastExit, psMarked, psCwd, psVar, observed,
                pc, ex, rchunk>>

\* the caller starts an operation
StartCall(op) ==
    /\ pc = "idle"
    /\ todo = <<>>
    /\ op \in {"send_keys", "clear_screen", "interrupt"} => nWrites < MaxLockWrites
    /\ todo' = Program(op)
    /\ ret' = [op |-> op, val |-> IF Program(op) = <<>> THEN "already" ELSE "running",
               text |-> <<>>]
    /\ UNCHANGED <<process, initialized, reader_thread, nStarted, nCleared, output_buffer,
                   command_running, stdin, pipe, psSpin, nWrites, nMarked, evicted,
                   output_lock, rtodo>>
    /\ CallerFrame

Call == \E op \in Operations : StartCall(op)

At(statement) == todo # <<>> /\ Head(todo) = statement

\* _start_session up to _setup_prompt: the process and the reader thread are started
CallerStart ==
    /\ At("start")
    /\ process' = "alive"
    /\ stop_reader' = FALSE
    /\ reader_thread' = "running"
    /\ rtodo' = ReaderLoop
    /\ nStarted' = nStarted + 1
    /\ stdin' = <<>>
    /\ pipe' \in StartupOutputs
    /\ psSuccess' = TRUE
    /\ psLastExit' = PsNull
    /\ psSpin' = FALSE
    /\ psCwd' = "orig"
    /\ psVar' = FALSE
    /\ todo' = Tail(todo)
    /\ UNCHANGED <<initialized, closed, closeLog, closeCalled, decodeVars, nCleared,
                   hostVars, browserVars, output_buffer, command_running, psMarked,
                   nWrites, nMarked, evicted, observed, pc, ex, ret, output_lock, rchunk>>

\* time.sleep
CallerSleep ==
    /\ At("sleep")
    /\ todo' = Tail(todo)
    /\ UNCHANGED <<process, initialized, reader_thread, nStarted, nCleared, output_buffer,
                   command_running, stdin, pipe, psSpin, nWrites, nMarked, evicted,
                   output_lock, rtodo, ret>>
    /\ CallerFrame

\* with self.output_lock: the caller waits until the lock is free and takes it
CallerAcquire ==
    /\ At("acquire")
    /\ output_lock = "free"
    /\ output_lock' = "caller"
    /\ todo' = Tail(todo)
    /\ UNCHANGED <<process, initialized, reader_thread, nStarted, nCleared, output_buffer,
                   command_running, stdin, pipe, psSpin, nWrites, nMarked, evicted,
                   rtodo, ret>>
    /\ CallerFrame

\* the end of the with block
CallerRelease ==
    /\ At("release")
    /\ output_lock' = "free"
    /\ todo' = Tail(todo)
    /\ UNCHANGED <<process, initialized, reader_thread, nStarted, nCleared, output_buffer,
                   command_running, stdin, pipe, psSpin, nWrites, nMarked, evicted,
                   rtodo, ret>>
    /\ CallerFrame

\* if len(self.output_buffer) > 0: break
CallerLen ==
    /\ At("len")
    /\ todo' = IF output_buffer # <<>> THEN <<"release">> \o SetupTail ELSE Tail(todo)
    /\ UNCHANGED <<process, initialized, reader_thread, nStarted, nCleared, output_buffer,
                   command_running, stdin, pipe, psSpin, nWrites, nMarked, evicted,
                   output_lock, rtodo, ret>>
    /\ CallerFrame

\* buffer_copy = list(self.output_buffer)
CallerCopy ==
    /\ At("copy")
    /\ ret' = [ret EXCEPT !.text = _get_buffered_output(output_buffer)]
    /\ todo' = Tail(todo)
    /\ UNCHANGED <<process, initialized, reader_thread, nStarted, nCleared, output_buffer,
                   command_running, stdin, pipe, psSpin, nWrites, nMarked, evicted,
                   output_lock, rtodo>>
    /\ CallerFrame

\* self.output_buffer.clear()
CallerClear ==
    /\ At("clear")
    /\ output_buffer' = <<>>
    /\ evicted' = FALSE
    /\ todo' = Tail(todo)
    /\ UNCHANGED <<process, initialized, reader_thread, nStarted, nCleared,
                   command_running, stdin, pipe, psSpin, nWrites, nMarked,
                   output_lock, rtodo, ret>>
    /\ CallerFrame

\* self._initialized = True
CallerInitialized ==
    /\ At("initialized")
    /\ initialized' = TRUE
    /\ ret' = [ret EXCEPT !.val = "ok"]
    /\ todo' = Tail(todo)
    /\ UNCHANGED <<process, reader_thread, nStarted, nCleared, output_buffer,
                   command_running, stdin, pipe, psSpin, nWrites, nMarked, evicted,
                   output_lock, rtodo>>
    /\ CallerFrame

\* the test of send_keys: RuntimeError when the process is not running, which
\* interrupt() catches
CallerPoll ==
    /\ At("poll")
    /\ IF ProcessAlive
       THEN /\ todo' = Tail(todo)
            /\ ret' = ret
       ELSE /\ todo' = <<>>
            /\ ret' = [ret EXCEPT !.val = IF ret.op = "interrupt" THEN "False"
                                          ELSE "RuntimeError"]
    /\ UNCHANGED <<process, initialized, reader_thread, nStarted, nCleared, output_buffer,
                   command_running, stdin, pipe, psSpin, nWrites, nMarked, evicted,
                   output_lock, rtodo>>
    /\ CallerFrame

\* the first tests of is_running
CallerAlive ==
    /\ At("alive")
    /\ IF ~initialized \/ process = "none"
       THEN /\ todo' = <<>>
            /\ ret' = [ret EXCEPT !.val = "False"]
            /\ command_running' = command_running
       ELSE IF process # "alive"
       THEN /\ todo' = <<>>
            /\ ret' = [ret EXCEPT !.val = "False"]
            /\ command_running' = FALSE
       ELSE /\ todo' = Tail(todo)
            /\ ret' = ret
            /\ command_running' = command_running
    /\ UNCHANGED <<process, initialized, reader_thread, nStarted, nCleared, output_buffer,
                   stdin, pipe, psSpin, nWrites, nMarked, evicted, output_lock, rtodo>>
    /\ CallerFrame

\* the test of interrupt()
CallerRunning ==
    /\ At("running")
    /\ IF ProcessAlive
       THEN /\ todo' = Tail(todo)
            /\ ret' = ret
       ELSE /\ todo' = <<>>
            /\ ret' = [ret EXCEPT !.val = "False"]
    /\ UNCHANGED <<process, initialized, reader_thread, nStarted, nCleared, output_buffer,
                   command_running, stdin, pipe, psSpin, nWrites, nMarked, evicted,
                   output_lock, rtodo>>
    /\ CallerFrame

\* the end of is_running: the END marker in the text copied
CallerEndCheck ==
    /\ At("end_check")
    /\ IF HasEnd(ret.text)
       THEN /\ command_running' = FALSE
            /\ ret' = [ret EXCEPT !.val = "False"]
       ELSE /\ command_running' = command_running
            /\ ret' = [ret EXCEPT !.val = IF command_running THEN "True" ELSE "False"]
    /\ todo' = Tail(todo)
    /\ UNCHANGED <<process, initialized, reader_thread, nStarted, nCleared, output_buffer,
                   stdin, pipe, psSpin, nWrites, nMarked, evicted, output_lock, rtodo>>
    /\ CallerFrame

\* self._command_running_event.set()
CallerSetFlag ==
    /\ At("set_flag")
    /\ command_running' = TRUE
    /\ nMarked' = nMarked + 1
    /\ todo' = Tail(todo)
    /\ UNCHANGED <<process, initialized, reader_thread, nStarted, nCleared, output_buffer,
                   stdin, pipe, psSpin, nWrites, evicted, output_lock, rtodo, ret>>
    /\ CallerFrame

\* self._command_running_event.clear()
CallerClearFlag ==
    /\ At("clear_flag")
    /\ command_running' = FALSE
    /\ ret' = [ret EXCEPT !.val = IF ret.op = "interrupt" THEN "True" ELSE "ok"]
    /\ todo' = Tail(todo)
    /\ UNCHANGED <<process, initialized, reader_thread, nStarted, nCleared, output_buffer,
                   stdin, pipe, psSpin, nWrites, nMarked, evicted, output_lock, rtodo>>
    /\ CallerFrame

\* _write_to_stdin: the write and the flush; a write to a process that has ended
\* fails and is logged
CallerWrite ==
    /\ At("write")
    /\ stdin' = IF ProcessAlive THEN stdin \o WriteData(ret.op) ELSE stdin
    /\ nWrites' = nWrites + 1
    /\ ret' = IF ret.op = "send_keys" THEN [ret EXCEPT !.val = "ok"] ELSE ret
    /\ todo' = Tail(todo)
    /\ UNCHANGED <<process, initialized, reader_thread, nStarted, nCleared, output_buffer,
                   command_running, pipe, psSpin, nMarked, evicted, output_lock, rtodo>>
    /\ CallerFrame

\* the statements of the caller that wait for nothing but the caller
CallerRun ==
    \/ CallerStart \/ CallerSleep \/ CallerRelease \/ CallerLen \/ CallerCopy
    \/ CallerClear \/ CallerInitialized \/ CallerPoll \/ CallerAlive \/ CallerRunning
    \/ CallerEndCheck \/ CallerSetFlag \/ CallerClearFlag \/ CallerWrite

RAt(statement) == reader_thread = "running" /\ rtodo # <<>> /\ Head(rtodo) = statement

\* what the statements of the reader leave alone
ReaderFrame ==
    UNCHANGED <<process, initialized, closed, stop_reader, closeLog, closeCalled, nStarted,
                decodeVars, nCleared, hostVars, browserVars, command_running, stdin,
                shellVars, nWrites, nMarked, observed, pc, ex, ret, todo>>

\* while not self._stop_reader: the loop ends when the stop flag is set
ReaderTop ==
    /\ RAt("top")
    /\ IF stop_reader
       THEN /\ reader_thread' = "done"
            /\ rtodo' = <<>>
       ELSE /\ reader_thread' = reader_thread
            /\ rtodo' = Tail(rtodo)
    /\ UNCHANGED <<pipe, rchunk, output_lock, output_buffer, evicted>>
    /\ ReaderFrame

\* chunk = stdout.read(READ_CHUNK_SIZE).  The read waits for output; the loop ends
\* when it returns nothing or fails on the closed stdout.  A read that was under
\* way when stdout was closed may still return output.
ReaderGet ==
    /\ RAt("read")
    /\ \/ /\ StdoutClosed \/ (process # "alive" /\ pipe = <<>>)
          /\ reader_thread' = "done"
          /\ rtodo' = <<>>
          /\ output_lock' = IF output_lock = "reader" THEN "free" ELSE output_lock
          /\ UNCHANGED <<pipe, rchunk>>
       \/ /\ pipe # <<>>
          /\ \E n \in 1..Min(READ_CHUNK_SIZE, Len(pipe)) :
               /\ rchunk' = SubSeq(pipe, 1, n)
               /\ pipe' = SubSeq(pipe, n + 1, Len(pipe))
          /\ rtodo' = Tail(rtodo)
          /\ UNCHANGED <<reader_thread, output_lock>>
    /\ UNCHANGED <<output_buffer, evicted>>
    /\ ReaderFrame

\* with self.output_lock
ReaderAcquire ==
    /\ RAt("acquire")
    /\ output_lock = "free"
    /\ output_lock' = "reader"
    /\ rtodo' = Tail(rtodo)
    /\ UNCHANGED <<reader_thread, pipe, rchunk, output_buffer, evicted>>
    /\ ReaderFrame

\* self.output_buffer.append(decoded)
ReaderAppend ==
    /\ RAt("append")
    /\ output_buffer' = DequeAppend(output_buffer, rchunk)
    /\ evicted' = (evicted \/ Len(output_buffer) = HISTORY_LIMIT)
    /\ rchunk' = <<>>
    /\ rtodo' = Tail(rtodo)
    /\ UNCHANGED <<reader_thread, pipe, output_lock>>
    /\ ReaderFrame

\* the end of the with block and of the turn
ReaderRelease ==
    /\ RAt("release")
    /\ output_lock' = "free"
    /\ rtodo' = ReaderLoop
    /\ UNCHANGED <<reader_thread, pipe, rchunk, output_buffer, evicted>>
    /\ ReaderFrame

\* the statements of the reader that wait for nothing but the reader or its input
ReaderRun == ReaderTop \/ ReaderGet \/ ReaderAppend \/ ReaderRelease

-----------------------------------------------------------------------------
(* The session controller's execute(), for an action that is neither a reset *)
(* nor an input to a running command.                                        *)

IsTok(text, i, k) == i \in 1..Len(text) /\ text[i].k = k

\* a search that takes the last END after the BEGIN (a greedy pattern)
FirstSpanGreedy(text) ==
    LET ok(i) == IsTok(text, i, "B") /\ \E j \in (i + 2)..Len(text) : IsTok(text, j, "E")
    IN  IF \E i \in 1..Len(text) : ok(i)
        THEN LET i == CHOOSE i \in 1..Len(text) : ok(i) /\ \A h \in 1..(i - 1) : ~ok(h)
                 j == CHOOSE j \in (i + 2)..Len(text) :
                        /\ IsTok(text, j, "E")
                        /\ \A h \in (j + 1)..Len(text) : ~IsTok(text, h, "E")
             IN  <<i, j>>
        ELSE <<0, 0>>

\* the first BEGIN(.+?)END span of the text: <<i, j>>, the places of its BEGIN and
\* END markers, or <<0, 0>> when there is none
FirstSpan(text) ==
    LET ok(i) == IsTok(text, i, "B") /\ \E j \in (i + 2)..Len(text) : IsTok(text, j, "E")
    IN  IF \E i \in 1..Len(text) : ok(i)
        THEN LET i == CHOOSE i \in 1..Len(text) : ok(i) /\ \A h \in 1..(i - 1) : ~ok(h)
                 j == CHOOSE j \in (i + 2)..Len(text) :
                        /\ IsTok(text, j, "E")
                        /\ \A h \in (i + 2)..(j - 1) : ~IsTok(text, h, "E")
             IN  <<i, j>>
        ELSE <<0, 0>>

NoRecord == [found |-> FALSE, exit_code |-> 0, c |-> 0, working_dir |-> "none"]

\* what CmdOutputMetadata gives to a field that the payload lacks, when it gives
\* defaults
DefaultField == -1

\* CmdOutputMetadata(**meta_json) for the JSON object of a payload: the record of
\* a payload that has every field; for one that lacks fields, TypeError or
\* ValueError when the class wants them all (NoRecord stands for the exception,
\* which _parse_metadata catches), else a record with defaults in their place
CmdOutputMetadata(payload) ==
    IF payload.k = "P"
    THEN [found |-> TRUE, exit_code |-> payload.x, c |-> payload.c,
          working_dir |-> payload.d]
    ELSE IF metadata_strict THEN NoRecord
    ELSE [found |-> TRUE, exit_code |-> DefaultField, c |-> DefaultField,
          working_dir |-> "none"]

\* the payload is one JSON object: json.loads returns it
IsJson(payload) == payload.k \in {"P", "L"}

\* _parse_metadata: None (NoRecord) when the text has no BEGIN..END span, or when
\* json.loads or the record class raises on what stands between the markers of
\* the first span; else the record the class makes of it
_parse_metadata(text) ==
    LET sp == FirstSpan(text)
    IN  IF sp[1] # 0 /\ sp[2] = sp[1] + 2 /\ IsJson(text[sp[1] + 1])
        THEN CmdOutputMetadata(text[sp[1] + 1])
        ELSE NoRecord

\* the text with the located span taken out
StripRecord(text) ==
    LET sp == FirstSpan(text)
    IN  IF sp[1] = 0 THEN text
        ELSE SubSeq(text, 1, sp[1] - 1) \o SubSeq(text, sp[2] + 1, Len(text))

\* the notice a reset puts into its observation
ResetNotice == Tok("reset", 0, 0)

ResetPrefix(reset) == IF reset THEN <<ResetNotice>> ELSE <<>>

\* a label that leaves the command out
CommandLabelPlain(command, reset) == IF reset THEN <<"[RESET]">> ELSE command

\* the command_label of an observation
CommandLabel(command, reset) ==
    IF ~reset THEN command
    ELSE IF command = <<>> THEN <<"[RESET]">>
    ELSE <<"[RESET]", " ">> \o command

\* no shell was replaced just before
NoShell == [cwd |-> "none", var |-> FALSE]

\* the state of the shell that the reset just before this operation replaced, when
\* the operation just before was a reset with an empty command
Replaced == IF ret.op = "execute" /\ ret.val = "RESET" THEN ret.replaced ELSE NoShell

\* the last operation was an execute that returned a timeout status
TimedOut == ret.op = "execute" /\ ret.val \in {"NO_OUTPUT_TIMEOUT", "HARD_TIMEOUT"}

\* what a shell whose output is arbitrary may print: ordinary output, the markers,
\* a well-formed payload, a payload that is not JSON ("J") and one that is JSON
\* but lacks fields of the record ("L")
AnyOutput ==
    { Tok("o", 0, 0), Tok("B", 0, 0), Tok("E", 0, 0), Tok("J", 0, 0), Tok("L", 0, 0),
      [k |-> "P", c |-> 0, x |-> 0, d |-> "orig"] }

\* the shell prints one more piece of arbitrary output
ShellEmits ==
    \E t \in AnyOutput :
        /\ process = "alive"
        /\ Len(written) < MaxEmitted
        /\ pipe' = Append(pipe, t)
        /\ written' = Append(written, t)
        /\ UNCHANGED <<process, initialized, closed, reader_thread, stop_reader, closeLog,
                       closeCalled, nStarted, arrived, nCleared, sideVars, decoder, output_buffer,
                       command_running, stdin, shellVars, nWrites, nMarked, evicted,
                       observed, pc, ex, ret>>

\* a poll's search for the record in the text read from the buffer
ParseMetadata ==
    /\ pc = "idle"
    /\ initialized
    /\ LET text == _get_buffered_output(output_buffer)
       IN  ret' = [op |-> "_parse_metadata", val |-> _parse_metadata(text), text |-> text,
                   retried |-> ret.op = "_parse_metadata" /\ ~ret.val.found]
    /\ UNCHANGED <<backendVars, output_buffer, command_running, stdin, pipe, shellVars,
                   nWrites, nMarked, evicted, observed, pc, ex>>

\* execute up to the end of the clear of send_keys: the command is sent through
\* the backend (SendKeysWrite is the rest of the send)
ExecuteCall(command) ==
    /\ pc = "idle"
    /\ \/ /\ ProcessAlive
          /\ nWrites < MaxWrites
          /\ SetCaller(send_keys_cleared(command, TRUE, FALSE))
          /\ pc' = "send"
          /\ ex' = ex
          /\ ret' = [op |-> "execute", val |-> "SENDING", command |-> command,
                     reset |-> FALSE, replaced |-> Replaced,
                     afterClear |-> (ret.op = "clear_screen"),
                     again |-> FALSE]
       \/ /\ ~ProcessAlive
          /\ SetCaller(send_keys_not_running)
          /\ UNCHANGED <<pc, ex>>
          /\ ret' = [op |-> "execute", val |-> "RuntimeError", command |-> command,
                     reset |-> FALSE, replaced |-> Replaced,
                     afterClear |-> (ret.op = "clear_screen"),
                     again |-> FALSE]
    /\ UNCHANGED <<backendVars, pipe, shellVars>>

\* the commands the caller executes: an empty one, one that succeeds, a cmdlet
\* that fails, a native program that exits non-zero
Commands == { <<>>, <<"e">>, <<"f">>, <<"n">> }

Execute == \E command \in Commands : ExecuteCall(command)

\* a command that ends and one that prints forever
LongCommands == { <<"e">>, <<"s">> }

ExecuteLong == \E command \in LongCommands : ExecuteCall(command)

\* a poll loop without the hard ceiling
PollStatusNoCeiling(text, since, elapsed) ==
    IF _parse_metadata(text).found THEN "COMPLETED"
    ELSE IF since >= NoChangeTimeoutPolls THEN "NO_OUTPUT_TIMEOUT"
    ELSE "RUNNING"

\* what one turn of the poll loop decides on the text it has read
PollStatus(text, since, elapsed) ==
    IF _parse_metadata(text).found THEN "COMPLETED"
    ELSE IF since >= NoChangeTimeoutPolls THEN "NO_OUTPUT_TIMEOUT"
    ELSE IF elapsed >= HardTimeoutPolls THEN "HARD_TIMEOUT"
    ELSE "RUNNING"

\* a poll loop that takes a command that timed out for ended
PollFrameClearsFlag(status) ==
    /\ command_running' = (command_running /\ status \in {"RUNNING", "COMPLETED"})
    /\ UNCHANGED <<backendVars, output_buffer, stdin, pipe, shellVars, nWrites, nMarked,
                   evicted, observed>>

\* polls in a row, this one included, that have found no new chunk arrived
Quiet == IF Len(arrived) # ex.seen THEN 0 ELSE ex.quiet

\* what a turn of the poll loop leaves alone, whatever it decides
PollFrame(status) ==
    UNCHANGED <<backendVars, output_buffer, command_running, stdin, pipe, shellVars,
                nWrites, nMarked, evicted, observed>>

\* one turn of execute's poll loop: read the screen, return or sleep
ExecutePoll ==
    /\ pc = "poll"
    /\ LET text   == _get_buffered_output(output_buffer)
           since  == IF text # ex.last THEN 0 ELSE ex.since
           status == PollStatus(text, since, ex.elapsed)
       IN  /\ PollFrame(status)
           /\ IF status = "RUNNING"
              THEN /\ ex' = [elapsed |-> ex.elapsed + 1, since |-> since + 1, last |-> text,
                              seen |-> Len(arrived), quiet |-> Quiet + 1]
                   /\ UNCHANGED <<pc, ret>>
              ELSE /\ ex' = ExIdle
                   /\ pc' = "idle"
                   /\ ret' = [op |-> "execute", val |-> status, command |-> ret.command,
                              reset |-> ret.reset, replaced |-> ret.replaced,
                              command_label |-> CommandLabel(ret.command, ret.reset),
                              afterClear |-> ret.afterClear,
                              again |-> ret.again,
                              exit_code |-> _parse_metadata(text).exit_code,
                              c |-> _parse_metadata(text).c,
                              working_dir |-> _parse_metadata(text).working_dir,
                              text |-> ResetPrefix(ret.reset) \o
                                         (IF status = "COMPLETED" THEN StripRecord(text)
                                          ELSE text)]

\* a later poll for a command that timed out: execute waits again for the record
\* and sends nothing
ExecutePollAgain ==
    /\ pc = "idle"
    /\ TimedOut
    /\ pc' = "poll"
    /\ ex' = ExStart
    /\ ret' = [op |-> "execute", val |-> "RUNNING", command |-> ret.command,
               reset |-> FALSE, replaced |-> NoShell, afterClear |-> FALSE,
               again |-> TRUE]
    /\ UNCHANGED <<backendVars, output_buffer, command_running, stdin, pipe, shellVars,
                   nWrites, nMarked, evicted, observed>>

-----------------------------------------------------------------------------
(* execute() of an action with reset = true *)

\* a restart that keeps the shell process and only empties the buffer
RestartKeepProcess ==
    /\ process' = "alive"
    /\ stdin' = stdin
    /\ pipe' = pipe
    /\ UNCHANGED shellVars

\* a new shell process that inherits the environment of the one it replaces
RestartKeepEnvironment ==
    /\ process' = "alive"
    /\ stdin' = <<>>
    /\ pipe' \in StartupOutputs
    /\ psSuccess' = TRUE
    /\ psLastExit' = PsNull
    /\ psSpin' = FALSE
    /\ psMarked' = nMarked
    /\ psCwd' = "orig"
    /\ psVar' = psVar

\* the restart of the backend gives the session a new shell process, started in the
\* directory the session was created with
RestartProcess ==
    /\ process' = "alive"
    /\ stdin' = <<>>
    /\ pipe' \in StartupOutputs
    /\ psSuccess' = TRUE
    /\ psLastExit' = PsNull
    /\ psSpin' = FALSE
    /\ psMarked' = nMarked
    /\ psCwd' = "orig"
    /\ psVar' = FALSE

\* a validation that empties the buffer before it fails
ValidationFrameClearsBuffer ==
    /\ output_buffer' = <<>>
    /\ UNCHANGED <<backendVars, command_running, stdin, pipe, shellVars, nWrites,
                   nMarked, evicted, observed, pc, ex>>

\* what the failed validation of an action leaves alone
ValidationFrame ==
    UNCHANGED <<backendVars, output_buffer, command_running, stdin, pipe, shellVars,
                nWrites, nMarked, evicted, observed, pc, ex>>

\* execute of an action with reset = true: a validation error when it is an input
\* too; otherwise the backend is replaced by a new one, which is initialized
ExecuteResetCall(command, is_input, timeout) ==
    /\ pc = "idle"
    /\ IF is_input
       THEN /\ ret' = [op |-> "execute", val |-> "ValidationError", command |-> command,
                       reset |-> TRUE, afterClear |-> FALSE]
            /\ ValidationFrame
       ELSE /\ nStarted + nWrites < MaxSessionOps
            /\ command # <<>> => nWrites < MaxWrites
            /\ RestartProcess
            /\ initialized' = FALSE
            /\ closed' = FALSE
            /\ reader_thread' = "running"
            /\ stop_reader' = FALSE
            /\ closeLog' = <<>>
            /\ rtodo' = <<>>
            /\ closeCalled' = FALSE
            /\ nStarted' = nStarted + 1
            /\ output_buffer' = <<>>
            /\ evicted' = FALSE
            /\ command_running' = FALSE
            /\ observed' = FALSE
            /\ pc' = "setup"
            /\ ex' = ExIdle
            /\ ret' = [op |-> "execute", val |-> "RESETTING", command |-> command,
                       reset |-> TRUE, afterClear |-> FALSE, timeout |-> timeout,
                       replaced |-> [cwd |-> psCwd, var |-> psVar]]
            /\ UNCHANGED <<decodeVars, nCleared, hostVars, browserVars, output_lock,
                           todo, rchunk, nWrites, nMarked>>

\* the commands a reset carries
ResetCommands == { <<>>, <<"e">> }

\* the timeouts a reset with an empty command carries (one with a command is
\* polled with the session's timeout)
Timeouts(command) ==
    IF command = <<>> THEN {0, NoChangeTimeoutPolls} ELSE {NoChangeTimeoutPolls}

ExecuteReset == \E command \in ResetCommands, is_input \in BOOLEAN :
                    \E timeout \in Timeouts(command) :
                        ExecuteResetCall(command, is_input, timeout)

\* the reset after the new backend is initialized: the "[RESET]" observation for an
\* empty command, otherwise the command is sent (SendKeysWrite is the rest of the
\* send) and polled like any other
ResetDone ==
    /\ pc = "reset"
    /\ IF ret.command = <<>>
       THEN /\ ret' = [op |-> "execute", val |-> "RESET", command |-> ret.command,
                       reset |-> TRUE, afterClear |-> FALSE, timeout |-> ret.timeout,
                       replaced |-> ret.replaced,
                       command_label |-> CommandLabel(ret.command, TRUE),
                       text |-> ResetPrefix(TRUE)]
            /\ pc' = "idle"
            /\ UNCHANGED <<output_buffer, command_running, stdin, nWrites, nMarked,
                           evicted, observed, ex>>
       ELSE /\ SetCaller(send_keys_cleared(ret.command, TRUE, FALSE))
            /\ pc' = "send"
            /\ ex' = ex
            /\ ret' = [op |-> "execute", val |-> "SENDING", command |-> ret.command,
                       reset |-> TRUE, afterClear |-> FALSE, again |-> FALSE,
                       replaced |-> ret.replaced]
    /\ UNCHANGED <<backendVars, pipe, shellVars>>

\* a command that changes the shell's state (directory and variable) and one that
\* shows it
StateCommands == { <<"cd", ";", "set">>, <<"get">> }

ExecuteState ==
    /\ nStarted + nWrites < MaxSessionOps
    /\ \E command \in StateCommands : ExecuteCall(command)

-----------------------------------------------------------------------------
(* The backend factory *)

\* what platform.system() returns on the hosts looked at
Systems == {"Windows", "Linux"}

\* a package that exports the same backends on every platform
ExportedEverywhere(system) == {"TmuxTerminal", "SubprocessTerminal"}

\* the backend classes the terminal package imports and exports on a platform
Exported(system) ==
    IF system = "Windows" THEN {"WindowsTerminal"}
    ELSE {"TmuxTerminal", "SubprocessTerminal"}

\* create_terminal_session: the backend class chosen for a new session
create_terminal_session(system, tmux) ==
    IF system = "Windows" THEN "WindowsTerminal"
    ELSE IF tmux THEN "TmuxTerminal"
    ELSE "SubprocessTerminal"

\* the factory makes the session's backend, once
CreateSession ==
    /\ pc = "idle"
    /\ session_terminal = "none"
    /\ session_terminal' = create_terminal_session(platform_system, tmux_available)
    /\ ret' = [op |-> "create_terminal_session", val |-> session_terminal']
    /\ UNCHANGED <<process, initialized, closed, reader_thread, stop_reader, closeLog,
                   closeCalled, nStarted, decodeVars, nCleared, metadata_strict, platform_system,
                   tmux_available, browserVars, lockVars, output_buffer, command_running,
                   stdin, pipe, shellVars, nWrites, nMarked, evicted, observed, pc, ex>>

\* the multiplexer binary is installed or removed while the session lives
TmuxChanges ==
    /\ tmux_available' = ~tmux_available
    /\ UNCHANGED <<process, initialized, closed, reader_thread, stop_reader, closeLog,
                   closeCalled, nStarted, decodeVars, nCleared, metadata_strict, platform_system,
                   session_terminal, browserVars, lockVars, output_buffer,
                   command_running, stdin, pipe, shellVars, nWrites, nMarked, evicted,
                   observed, pc, ex, ret>>

\* a reset of a session whose backend is not the Platform-Shell one: the backend
\* is restarted, the session keeps its backend class
ResetOther ==
    /\ pc = "idle"
    /\ session_terminal \in {"TmuxTerminal", "SubprocessTerminal"}
    /\ ret' = [op |-> "execute", val |-> "RESET", terminal |-> session_terminal]
    /\ UNCHANGED <<backendVars, output_buffer, command_running, stdin, pipe, shellVars,
                   nWrites, nMarked, evicted, observed, pc, ex>>

-----------------------------------------------------------------------------
(* The Windows browser executor's constructor *)

\* the threads that construct a WindowsBrowserToolExecutor
Threads == 1..MaxThreads

\* a thread outside the constructor
CtorOut == [pc |-> "out", original_check |-> "none", built |-> 0]

\* original_check = impl_module._check_chromium_available
CtorSave(t) ==
    /\ ctor[t].pc = "out"
    /\ ctor[t].built < MaxBuilt
    /\ ctor' = [ctor EXCEPT ![t].pc = "install", ![t].original_check = check_chromium]
    /\ UNCHANGED <<check_chromium, terminalVars, hostVars, lockVars>>

\* impl_module._check_chromium_available = _check_chromium_available_windows
CtorInstall(t) ==
    /\ ctor[t].pc = "install"
    /\ check_chromium' = "windows"
    /\ ctor' = [ctor EXCEPT ![t].pc = "super"]
    /\ UNCHANGED <<terminalVars, hostVars, lockVars>>

\* super().__init__(...) inside the try: it returns or it raises
CtorSuper(t) ==
    /\ ctor[t].pc = "super"
    /\ ctor' = [ctor EXCEPT ![t].pc = "finally"]
    /\ UNCHANGED <<check_chromium, terminalVars, hostVars, lockVars>>

\* finally: impl_module._check_chromium_available = original_check; the
\* constructor has returned or raised
CtorRestore(t) ==
    /\ ctor[t].pc = "finally"
    /\ check_chromium' = ctor[t].original_check
    /\ ctor' = [ctor EXCEPT ![t].pc = "out", ![t].original_check = "none",
                            ![t].built = @ + 1]
    /\ UNCHANGED <<terminalVars, hostVars, lockVars>>

Save == \E t \in Threads : CtorSave(t)
Install == \E t \in Threads : CtorInstall(t)
Super == \E t \in Threads : CtorSuper(t)
Restore == \E t \in Threads : CtorRestore(t)

-----------------------------------------------------------------------------
(* The specifications *)

\* a backend just constructed, no session made, no constructor of a browser
\* executor running
InitSession ==
    /\ process = "none"
    /\ initialized = FALSE
    /\ closed = FALSE
    /\ reader_thread = "none"
    /\ stop_reader = FALSE
    /\ output_buffer = <<>>
    /\ command_running = FALSE
    /\ stdin = <<>>
    /\ pipe = <<>>
    /\ psSuccess = TRUE
    /\ psLastExit = PsNull
    /\ psSpin = FALSE
    /\ psMarked = 0
    /\ psCwd = "orig"
    /\ psVar = FALSE
    /\ nWrites = 0
    /\ nMarked = 0
    /\ evicted = FALSE
    /\ observed = FALSE
    /\ closeLog = <<>>
    /\ closeCalled = FALSE
    /\ nStarted = 0
    /\ arrived = <<>>
    /\ nCleared = 0
    /\ decoder = <<>>
    /\ written = <<>>
    /\ pc = "idle"
    /\ ex = ExIdle
    /\ session_terminal = "none"
    /\ check_chromium = "original"
    /\ ctor = [t \in Threads |-> CtorOut]
    /\ output_lock = "free"
    /\ todo = <<>>
    /\ rtodo = <<>>
    /\ rchunk = <<>>
    /\ ret = [op |-> "none", val |-> "none"]

\* the backend on the Windows host it is written for.  Its shell prints whole
\* records only, so that the record class is never given a payload that lacks
\* fields: a class of either kind gives the same behaviours
Init ==
    /\ InitSession
    /\ platform_system = "Windows"
    /\ tmux_available = FALSE
    /\ metadata_strict = TRUE

\* the same backend with a record class of either kind
ParseInit ==
    /\ InitSession
    /\ platform_system = "Windows"
    /\ tmux_available = FALSE
    /\ metadata_strict \in BOOLEAN

\* the shell process and the reader thread
Environment == ShellRunLine \/ ProcessExits \/ ReaderRead \/ ReaderEOF \/ ReaderExit

\* the backend driven directly by its caller
Next ==
    \/ Environment
    \/ Initialize \/ SetupPoll \/ SetupClear \/ SetupDone
    \/ SendKeys \/ SendKeysWrite \/ ReadScreen
    \/ ClearScreen \/ ClearScreenDrain \/ ClearScreenDone
    \/ Interrupt \/ IsRunning \/ IsRunningDone

Spec == Init /\ [][Next]_vars

\* the caller sends a command
SendCommand == SendKeysCall(<<"e">>, TRUE, FALSE)

\* the life of a backend from construction to close(); the caller thread keeps
\* running inside close()
LifecycleNext ==
    \/ Environment
    \/ Initialize \/ SetupPoll \/ SetupClear \/ SetupDone \/ SendCommand \/ SendKeysWrite
    \/ Close \/ CloseSteps

LifecycleSpec ==
    /\ Init /\ [][LifecycleNext]_vars
    /\ WF_vars(SetupPoll \/ SetupClear \/ SetupDone \/ CloseSteps)

\* the caller executes an echo command
ExecuteEcho == ExecuteCall(<<"e">>)

\* clear_screen between the commands of a session
ClearNext ==
    \/ ShellRunLine \/ ReaderRead
    \/ Initialize \/ SetupPoll \/ SetupClear \/ SetupDone
    \/ ClearScreen \/ ClearScreenDrain \/ ClearScreenDone
    \/ ExecuteEcho \/ SendKeysWrite \/ ExecutePoll

ClearSpec == Init /\ [][ClearNext]_vars

\* the reader thread, its decoder and the buffer on their own, read by the caller
ReaderNext ==
    \/ StartSession \/ SetupPoll \/ SetupClear \/ SetupDone
    \/ ShellWrites \/ ReaderDecode \/ ReadScreen \/ Drain

ReaderSpec == Init /\ [][ReaderNext]_vars

\* the reader on a shell that prints broken text and then ends, or is closed
UndecodableNext ==
    \/ StartSession \/ SetupPoll \/ SetupClear \/ SetupDone
    \/ ShellWritesAny \/ ProcessExits \/ ReaderDecode \/ ReaderEOF \/ ReaderExit
    \/ Close \/ CloseSteps

UndecodableSpec == Init /\ [][UndecodableNext]_vars

\* the session controller with resets
ResetNext ==
    \/ ShellRunLine \/ ReaderRead
    \/ Initialize \/ SetupPoll \/ SetupClear \/ SetupDone
    \/ ExecuteState \/ SendKeysWrite \/ ExecutePoll \/ ExecuteReset \/ ResetDone

ResetSpec == Init /\ [][ResetNext]_vars

\* an interrupt of a command that timed out
InterruptTimedOut == TimedOut /\ Interrupt

\* the session after a timeout: a later poll, an interrupt, a new command
TimeoutNext ==
    \/ Environment \/ ShellSpin
    \/ Initialize \/ SetupPoll \/ SetupClear \/ SetupDone
    \/ ExecuteLong \/ SendKeysWrite \/ ExecutePoll \/ ExecutePollAgain \/ InterruptTimedOut

TimeoutSpec == Init /\ [][TimeoutNext]_vars

\* execute() of a command that keeps printing, the arrival of chunks followed
NoOutputNext ==
    \/ ShellRunLine \/ ShellSpin \/ ReaderReadLogged
    \/ Initialize \/ SetupPoll \/ SetupClear \/ SetupDone
    \/ ExecuteLong \/ SendKeysWrite \/ ExecutePoll

NoOutputSpec == Init /\ [][NoOutputNext]_vars

\* the search for the record in arbitrary output that grows
ParseNext ==
    \/ StartSession \/ SetupPoll \/ SetupClear \/ SetupDone
    \/ ShellEmits \/ ReaderRead \/ ParseMetadata

ParseSpec == ParseInit /\ [][ParseNext]_vars

\* commands sent to a shell that may end under the write
WriteFailNext ==
    \/ Environment \/ Initialize \/ SetupPoll \/ SetupClear \/ SetupDone
    \/ SendKeys \/ SendKeysWrite \/ SendKeysBrokenPipe \/ IsRunning \/ IsRunningDone

WriteFailSpec == Init /\ [][WriteFailNext]_vars

\* a session made by the factory on any host, and reset
FactoryInit ==
    /\ InitSession
    /\ platform_system \in Systems
    /\ tmux_available \in BOOLEAN
    /\ metadata_strict = TRUE

FactoryNext ==
    \/ CreateSession \/ TmuxChanges \/ ResetOther
    \/ /\ session_terminal = "WindowsTerminal"
       /\ \/ ShellRunLine \/ ReaderRead
          \/ Initialize \/ SetupPoll \/ SetupClear \/ SetupDone
          \/ ExecuteReset \/ ResetDone \/ SendKeysWrite \/ ExecutePoll

FactorySpec == FactoryInit /\ [][FactoryNext]_vars

\* the life of a backend, and every operation on it once close() has been called
AfterCloseNext ==
    \/ LifecycleNext
    \/ /\ closeCalled
       /\ \/ SendKeys \/ ReadScreen \/ ClearScreen \/ ClearScreenDrain \/ ClearScreenDone
          \/ Interrupt \/ IsRunning \/ IsRunningDone

AfterCloseSpec == Init /\ [][AfterCloseNext]_vars

\* threads that construct browser executors, each at its own pace
BrowserNext == Save \/ Install \/ Super \/ Restore

BrowserSpec == Init /\ [][BrowserNext]_vars

\* the caller thread and the reader thread statement by statement; close() is
\* called between two operations
LockNext ==
    \/ ShellRunLine \/ ProcessExits
    \/ Call \/ CallerRun \/ CallerAcquire
    \/ ReaderRun \/ ReaderAcquire
    \/ (todo = <<>> /\ Close) \/ CloseSteps

\* both threads keep running, and a thread that waits for the lock gets it when
\* the lock is released again and again
LockSpec ==
    /\ Init
    /\ [][LockNext]_vars
    /\ WF_vars(CallerRun) /\ WF_vars(ReaderRun) /\ WF_vars(CloseSteps)
    /\ SF_vars(CallerAcquire) /\ SF_vars(ReaderAcquire)

\* send_keys with every kind of argument
SendNext ==
    \/ ShellRunLine \/ ReaderRead \/ Initialize \/ SetupPoll \/ SetupClear \/ SetupDone
    \/ SendAny \/ SendKeysWrite

SendSpec == Init /\ [][SendNext]_vars

\* the backend driven by the session controller
SessionNext ==
    \/ ShellRunLine \/ ReaderRead
    \/ Initialize \/ SetupPoll \/ SetupClear \/ SetupDone
    \/ Execute \/ SendKeysWrite \/ ExecutePoll \/ IsRunning \/ IsRunningDone

SessionSpec == Init /\ [][SessionNext]_vars

\* execute() of commands that may never end; the caller thread keeps running
PollNext ==
    \/ Environment \/ ShellSpin
    \/ Initialize \/ SetupPoll \/ SetupClear \/ SetupDone
    \/ ExecuteLong \/ SendKeysWrite \/ ExecutePoll

PollSpec == Init /\ [][PollNext]_vars /\ WF_vars(SendKeysWrite \/ ExecutePoll)

-----------------------------------------------------------------------------
(* The output buffer *)

\* C1: in every reachable state the output buffer holds at most HISTORY_LIMIT
\* chunks, however many chunks the reader has appended.
C1_BufferBounded == Len(output_buffer) <= HISTORY_LIMIT

\* the buffer is full and has already dropped a chunk
C1_Witness == evicted /\ Len(output_buffer) = HISTORY_LIMIT

\* C5: after send_keys has cleared the buffer for the latest command, every
\* marker and record in the buffer was emitted by that command.
C5_RecordOfLatestCommand ==
    LET text == Join(output_buffer)
    IN  \A i \in 1..Len(text) : text[i].k \in {"B", "P", "E"} => text[i].c = nMarked

-----------------------------------------------------------------------------
(* is_running and send_keys *)

\* a step in which a call of is_running returns
IsRunningStep ==
    /\ pc' = "idle"
    /\ ret'.op = "is_running"
    /\ (pc = "idle" /\ ret' # ret) \/ pc = "copied"

\* C7: is_running() returns true exactly when the process is alive, a command has
\* been sent, and no completion marker has been observed since the last command
\* was sent.
C7_IsRunningIffNoMarkerSeen ==
    [][IsRunningStep =>
        (ret'.val = (process = "alive" /\ nMarked > 0 /\ ~observed'))]_vars

\* a step that is a call of send_keys, up to the end of its clear
SendKeysStep ==
    /\ pc = "idle"
    /\ ret'.op = "send_keys"
    /\ (ret' # ret \/ nWrites' # nWrites)

\* C9: send_keys on a backend whose process was never started or has exited
\* fails with the not-running error and changes nothing: the buffer is not
\* cleared, the flag is not set, nothing is written to the input stream.
C9_SendKeysOnDeadProcess ==
    [][(SendKeysStep /\ process # "alive") =>
        /\ ret'.val = "RuntimeError"
        /\ UNCHANGED <<output_buffer, command_running, stdin, nWrites, nMarked,
                       backendVars>>]_vars

\* send_keys has failed on a process that has exited, with output in the buffer
\* and the flag of an earlier command still set
C9_Witness ==
    /\ ret.op = "send_keys" /\ ret.val = "RuntimeError"
    /\ process = "exited"
    /\ output_buffer # <<>>
    /\ command_running

\* the completion-marker command: print BEGIN, compute the record, print the
\* record, print END
MarkerCommand == <<";", "WB", ";", "X", ";", "WP", ";", "WE">>

WithNewline(text, enter) ==
    IF enter /\ (text = <<>> \/ text[Len(text)] # "\n") THEN text \o <<"\n">> ELSE text

\* a step in which send_keys, past its clear, writes to the input stream and returns
SendKeysWrote == pc = "send" /\ pc' = "idle" /\ ret'.op = "send_keys" /\ ret'.val = "ok"

\* C10 as stated: every text sent as not internal that is not an interrupt key,
\* blank text included, is written followed by the completion-marker command;
\* internal text and interrupt keys are written without it.
C10_MarkerUnlessInternalOrSpecial ==
    [][SendKeysWrote =>
        stdin' = stdin \o
            (IF ~ret'.internal /\ ret'.text \notin {<<"^C">>, <<"C-c">>, <<"C-C">>}
             THEN WithNewline(Rstrip(ret'.text) \o MarkerCommand, ret'.enter)
             ELSE WithNewline(ret'.text, ret'.enter))]_vars

\* C10, amended: a text that is not blank, not internal and not an interrupt key
\* is written, its trailing blanks removed, followed by the completion-marker
\* command; blank text, internal text and interrupt keys are written as they are;
\* in both cases a newline is added when enter is set and the data has none.
C10_MarkerUnlessBlankInternalOrSpecial ==
    [][SendKeysWrote =>
        stdin' = stdin \o
            (IF /\ ~ret'.internal
                /\ ret'.text \notin {<<"^C">>, <<"C-c">>, <<"C-C">>}
                /\ \E i \in 1..Len(ret'.text) : ret'.text[i] \notin {" ", "\n"}
             THEN WithNewline(Rstrip(ret'.text) \o MarkerCommand, ret'.enter)
             ELSE WithNewline(ret'.text, ret'.enter))]_vars

\* a command with a trailing blank has been written with its marker command
C10_Witness ==
    /\ ret.op = "send_keys" /\ ret.val = "ok"
    /\ ret.text = <<"e", " ">> /\ ~ret.internal
    /\ stdin = <<"e">> \o MarkerCommand \o <<"\n">>

-----------------------------------------------------------------------------
(* execute() *)

FinalStatuses == {"COMPLETED", "NO_OUTPUT_TIMEOUT", "HARD_TIMEOUT"}

\* C2: every execute() whose command was sent returns after at most
\* HardTimeoutPolls sleeps with one of the statuses COMPLETED, NO_OUTPUT_TIMEOUT
\* and HARD_TIMEOUT, whatever the shell does, also when the command never ends
\* and keeps printing.
C2_ExecuteReturns ==
    /\ [](ex.elapsed <= HardTimeoutPolls)
    /\ (pc = "poll") ~> (pc = "idle" /\ ret.op = "execute" /\ ret.val \in FinalStatuses)

\* execute has returned by the hard ceiling while the command was still printing
C2_Witness ==
    /\ pc = "idle" /\ ret.op = "execute" /\ ret.val = "HARD_TIMEOUT"
    /\ psSpin

\* the returned record is the one of the command that was executed
OwnRecord == ret.op = "execute" /\ ret.val = "COMPLETED" /\ ret.c = nMarked

\* C3: after any sequence of executed commands, an execute of a plain echo
\* command that completes returns exit_code 0 and the echoed text.
C3_EchoReturnsZero ==
    (OwnRecord /\ ret.command = <<"e">>) =>
        /\ ret.exit_code = 0
        /\ ~evicted => \E i \in 1..Len(ret.text) :
                           ret.text[i].k = "o" /\ ret.text[i].c = nMarked

\* C4: the exit_code in the record is non-zero when the user's command failed
\* and 0 when it succeeded.
C4_ExitCodeFollowsCommand ==
    OwnRecord => ((ret.exit_code # 0) <=> (ret.command \in {<<"f">>, <<"n">>}))

\* C6: the text of an execute that returns COMPLETED holds no BEGIN marker, no
\* END marker and no record payload.
C6_NoMarkerInReturnedText ==
    (ret.op = "execute" /\ ret.val = "COMPLETED") =>
        \A i \in 1..Len(ret.text) : ret.text[i].k = "o"

\* C8: is_running() returns false on a freshly initialized backend before any
\* command is sent, and after every execute that has returned COMPLETED.
C8_NotRunningWhenCompleted ==
    (ret.op = "is_running" /\ (ret.afterCompleted \/ (initialized /\ nWrites = 0))) =>
        ret.val = FALSE

-----------------------------------------------------------------------------
(* close() *)

\* a call of close() begins
CloseCallStep == pc = "idle" /\ ret'.op = "close" /\ (ret' # ret \/ pc' # pc \/ closeCalled' # closeCalled)

\* C11: a second or later close() on the same backend changes no state, performs
\* no stream, thread or process operation and does not raise.
C11_SecondCloseIsNoOp ==
    [][(CloseCallStep /\ closeCalled) =>
          /\ ret'.val = "ok"
          /\ UNCHANGED <<process, initialized, closed, reader_thread, stop_reader,
                         closeLog, output_buffer, command_running, stdin, pipe,
                         shellVars, pc>>]_vars

\* C12: when close() ends the backend is marked closed, whichever cleanup step
\* failed or timed out.
C12_ClosedWhenCloseEnds ==
    (ret.op = "close" /\ pc = "idle") => closed

CloseRank(step) ==
    CASE step = "stop" -> 1
      [] step \in {"stdin", "stdin_error"} -> 2
      [] step \in {"stdout", "stdout_error"} -> 3
      [] step \in {"join", "join_timeout"} -> 4
      [] step \in {"terminate", "terminate_error"} -> 5
      [] step \in {"wait", "wait_timeout"} -> 6
      [] step \in {"kill", "kill_error"} -> 7
      [] step = "closed" -> 8

\* the steps of the last run of close(): closeLog from its last "stop"
LastClose ==
    IF \E i \in 1..Len(closeLog) : closeLog[i] = "stop"
    THEN LET s == CHOOSE i \in 1..Len(closeLog) :
                      /\ closeLog[i] = "stop"
                      /\ \A j \in (i + 1)..Len(closeLog) : closeLog[j] # "stop"
         IN  SubSeq(closeLog, s, Len(closeLog))
    ELSE closeLog

CloseOrdered ==
    /\ \A i, j \in 1..Len(LastClose) :
          i < j => CloseRank(LastClose[i]) < CloseRank(LastClose[j])
    /\ closeLog # <<>> => closeLog[1] = "stop"
    /\ InClose => stop_reader
    /\ \A i \in 1..Len(closeLog) :
          closeLog[i] \in {"kill", "kill_error"} => (i > 1 /\ closeLog[i - 1] = "wait_timeout")
    /\ closed => (closeLog # <<>> /\ closeLog[Len(closeLog)] = "closed")

\* C13: close() signals the reader, then closes the streams, then joins the reader,
\* then terminates and waits for the process, force-kills it only after the wait
\* timed out, and only then marks the backend closed; and close() ends, also when
\* the reader thread or the process never stops.
C13_CloseOrderAndEnd ==
    /\ []CloseOrdered
    /\ InClose ~> ~InClose

\* close() has ended although the reader never stopped and the process outlived
\* the grace period
C13_Witness ==
    /\ closed /\ pc = "idle" /\ reader_thread = "running"
    /\ closeLog = <<"stop", "stdin", "stdout_error", "join_timeout", "terminate",
                    "wait_timeout", "kill", "closed">>

-----------------------------------------------------------------------------
(* initialize() *)

InSetup == pc \in {"setup", "ready", "cleared"}

\* C14: over any number of initialize() calls at most one shell process and one
\* reader thread are started; initialized becomes true only after the readiness
\* wait has ended and the clear that follows it has emptied the buffer of the
\* start-up output; and initialize() ends, also when the shell prints nothing.
C14_InitializeOnceAndEnds ==
    /\ [](nStarted <= 1)
    /\ [](initialized => ~InSetup)
    /\ [][(pc # "cleared" /\ pc' = "cleared") => (pc = "ready" /\ output_buffer' = <<>>)]_vars
    /\ [][(~initialized /\ initialized') => pc = "cleared"]_vars
    /\ InSetup ~> (pc = "idle" /\ initialized)

\* a second initialize() has returned and the one session is still the only one
C14_Witness ==
    /\ ret.op = "initialize" /\ ret.val = "already"
    /\ initialized /\ nStarted = 1 /\ process = "alive" /\ reader_thread = "running"

-----------------------------------------------------------------------------
(* interrupt() *)

InterruptStep == pc = "idle" /\ ret'.op = "interrupt" /\ (ret' # ret \/ nWrites' # nWrites)

\* is_running() at the next state
IsRunningAfter ==
    IF ~initialized' \/ process' = "none" THEN FALSE
    ELSE IF process' # "alive" THEN FALSE
    ELSE IF HasEnd(_get_buffered_output(output_buffer')) THEN FALSE
    ELSE command_running'

\* C15: an interrupt() called when is_running() is false is without effect: it
\* leaves is_running() false and the output buffer as it was, and what the shell
\* has still to read is as before, so that the next command line is run as it was
\* sent and any number of calls leave what one call leaves.
C15_InterruptWhenIdle ==
    [][(InterruptStep /\ ~is_running.val) =>
          /\ IsRunningAfter = is_running.val
          /\ output_buffer' = output_buffer
          /\ nMarked' = nMarked
          /\ process' = process => stdin' = stdin]_vars

\* C16: interrupt() returns true only if the interrupt key was written to the
\* live process's stdin, and false when the process is not alive or the write
\* failed.
C16_InterruptReportsDelivery ==
    ret.op = "interrupt" => (ret.val = ret.written)

-----------------------------------------------------------------------------
(* clear_screen() *)

ClearSendStep == pc = "idle" /\ pc' = "clear"
ClearDrainStep == pc = "clear" /\ pc' = "drained"
ClearDoneStep == pc = "drained" /\ pc' = "idle"

\* C17: clear_screen() on a live backend writes Clear-Host and a newline without
\* a marker command and without setting the command-running flag, then its drain
\* step empties the buffer of every chunk appended before it, and it returns with
\* the flag reset; an echo executed afterwards that completes returns its own
\* output.
C17_ClearScreen ==
    /\ [][ClearSendStep =>
            /\ stdin' = stdin \o <<"cls", "\n">>
            /\ nMarked' = nMarked
            /\ command_running' = command_running
            /\ output_buffer' = output_buffer]_vars
    /\ [][ClearDrainStep => (output_buffer' = <<>> /\ stdin' = stdin)]_vars
    /\ [][ClearDoneStep => (~command_running' /\ ret'.val = "ok")]_vars
    /\ []((OwnRecord /\ ret.afterClear /\ ~evicted) =>
             \E i \in 1..Len(ret.text) : ret.text[i].k = "o" /\ ret.text[i].c = nMarked)

\* an echo executed after clear_screen() has completed with its output
C17_Witness ==
    /\ OwnRecord /\ ret.afterClear /\ ret.command = <<"e">>
    /\ ret.text = <<Tok("o", nMarked, 0)>>

\* the chunks appended since the buffer was last cleared
SinceClear == SubSeq(arrived, nCleared + 1, Len(arrived))

\* the most recent min(n, capacity) of n chunks
Recent(chunks) ==
    SubSeq(chunks, Len(chunks) - Min(Len(chunks), HISTORY_LIMIT) + 1, Len(chunks))

\* a step in which read_screen() or a read with clear = true returns
ReadStep == pc = "idle" /\ ret' # ret /\ ret'.op = "read_screen"
DrainStep == pc = "idle" /\ ret' # ret /\ ret'.op = "drain"

\* C18: the buffer holds, in arrival order, the most recent min(n, capacity) of the
\* n chunks appended since it was last cleared, and a read (clearing or not)
\* returns their concatenation: nothing is reordered or duplicated, and what is
\* dropped is the oldest.
C18_ReadIsRecentChunksInOrder ==
    /\ [](output_buffer = Recent(SinceClear))
    /\ [][(ReadStep \/ DrainStep) => ret'.text = Join(Recent(SinceClear))]_vars

\* a read after an earlier clear and more than HISTORY_LIMIT chunks since
C18_Witness ==
    /\ ret.op = "read_screen"
    /\ nCleared > 0
    /\ Len(SinceClear) > HISTORY_LIMIT
    /\ Len(output_buffer) = HISTORY_LIMIT
    /\ ret.text = Join(Recent(SinceClear))
    /\ ret.text # Join(SinceClear)

\* C19: read_screen() leaves the buffer, the command-running flag and the process
\* as they were and returns the text of that buffer; a read with clear = true
\* returns the same snapshot and leaves the buffer empty in the same step, so that
\* every chunk appended is either in a returned snapshot or still in the buffer.
C19_ReadKeepsDrainEmpties ==
    /\ [][ReadStep => /\ UNCHANGED <<output_buffer, command_running, process>>
                      /\ ret'.text = _get_buffered_output(output_buffer')]_vars
    /\ [][DrainStep => /\ ret'.text = _get_buffered_output(output_buffer)
                       /\ output_buffer' = <<>>
                       /\ UNCHANGED <<command_running, process, pipe, decoder>>]_vars

\* a clearing read that returned two chunks while more bytes wait in the pipe
C19_Witness ==
    /\ ret.op = "drain"
    /\ Len(ret.text) >= 2
    /\ output_buffer = <<>>
    /\ nCleared = Len(arrived)
    /\ Len(arrived) >= 2
    /\ pipe # <<>>

\* bytes.decode("utf-8") of a whole valid sequence: one character for each encoding
RefDecode(bytes) ==
    LET last == SelectSeq(bytes, LAMBDA b : b.i = b.w)
    IN  [j \in 1..Len(last) |-> last[j].c]

\* the bytes the reader has read so far
Consumed == SubSeq(written, 1, Len(written) - Len(pipe))

\* the bytes at the end of a sequence that begin a character without ending it
IncompleteTail(bytes) ==
    IF bytes = <<>> \/ bytes[Len(bytes)].i = bytes[Len(bytes)].w
    THEN <<>>
    ELSE SubSeq(bytes, Len(bytes) - bytes[Len(bytes)].i + 1, Len(bytes))

\* C20: however the bytes the shell wrote are split into reads, the concatenation
\* of the chunks the reader appended is the decoding of the bytes read so far (the
\* decoder holding the bytes of a character not yet complete), hence of the whole
\* sequence once it is read: no character lost, duplicated or replaced.
C20_DecodingIsLossless ==
    /\ Join(arrived) = RefDecode(Consumed)
    /\ decoder = IncompleteTail(Consumed)
    /\ (pipe = <<>> => Join(arrived) = RefDecode(written))

\* a three-byte character, longer than a read, decoded whole with what follows it
C20_Witness ==
    /\ written = Encode("E3") \o Encode("a")
    /\ pipe = <<>>
    /\ decoder = <<>>
    /\ Join(arrived) = <<"E3", "a">>

\* what the byte at position k of a sequence decodes to: its character when it
\* completes one, a replacement character when it is 0xFF or the last byte of a
\* character cut short (by the next byte, or by the end of the stream), nothing
\* otherwise
Emit(bytes, k, ended) ==
    LET b == bytes[k]
    IN  IF b.i = b.w THEN <<b.c>>
        ELSE IF \/ b.i = 0
                \/ k < Len(bytes) /\ bytes[k + 1].i # b.i + 1
                \/ k = Len(bytes) /\ ended
             THEN <<Replacement>>
             ELSE <<>>

\* bytes.decode("utf-8", "replace") of a sequence, read to its end or not
RefDecodeReplace(bytes, ended) == Join([k \in 1..Len(bytes) |-> Emit(bytes, k, ended)])

\* C21: on broken input the reader goes on until the stream ends or close() stops
\* it: the text it has appended is the decoding of the bytes read with one
\* replacement character for every invalid sequence and every later character in
\* its place; it leaves its loop only when told to stop or when the process has
\* ended and nothing is left to read, and when it leaves inside a character that
\* character is flushed as a replacement character, the decoder keeping nothing.
C21_UndecodableIsReplaced ==
    /\ Join(arrived) = RefDecodeReplace(Consumed, ReaderFlushed)
    /\ ReaderFlushed => /\ decoder = <<>>
                        /\ stop_reader \/ (process # "alive" /\ pipe = <<>>)
    /\ (reader_thread = "running" /\ ~ReaderFlushed) => decoder = IncompleteTail(Consumed)

\* 0xFF, a character and a character cut short by the end of the stream
C21_Witness ==
    /\ written = <<BadByte>> \o Encode("a") \o SubSeq(Encode("E3"), 1, 2)
    /\ process = "exited"
    /\ ~stop_reader
    /\ ReaderFlushed
    /\ reader_thread = "running"
    /\ Join(arrived) = <<Replacement, "a", Replacement>>
    /\ arrived[Len(arrived)] = <<Replacement>>

-----------------------------------------------------------------------------
(* execute() with reset = true *)

\* a step in which execute fails the validation of its action
ValidationStep == pc = "idle" /\ ret' # ret /\ ret'.op = "execute" /\ ret'.val = "ValidationError"

\* C22: execute of an action with reset = true and is_input = true fails with a
\* validation error and touches nothing: no new process, nothing written to the
\* shell, the buffer, the flags and the caller's position as they were.
C22_ResetWithInputIsRejected ==
    [][ValidationStep =>
          UNCHANGED <<process, initialized, closed, reader_thread, stop_reader, nStarted,
                      output_buffer, command_running, stdin, pipe, shellVars, nWrites,
                      nMarked, pc>>]_vars

\* the validation error on a session whose shell has run a command and moved away
C22_Witness ==
    /\ ret.op = "execute"
    /\ ret.val = "ValidationError"
    /\ initialized
    /\ process = "alive"
    /\ nStarted = 1
    /\ psCwd = "other"
    /\ output_buffer # <<>>

\* an observation of a reset with an empty command
ResetOnly == ret.op = "execute" /\ ret.val = "RESET"

\* the completed first command after a reset with an empty command, the command
\* being one that leaves the directory alone
FirstAfterReset ==
    /\ ret.op = "execute"
    /\ ret.val = "COMPLETED"
    /\ ~ret.reset
    /\ ret.replaced # NoShell
    /\ ret.command = <<"get">>

\* C23: a reset with an empty command returns, whatever its timeout, an observation
\* labelled exactly "[RESET]" whose text holds the reset notice, and the record
\* of the next command reports the directory the session was created with.
C23_ResetOnly ==
    /\ ResetOnly => /\ ret.command = <<>>
                    /\ ret.command_label = <<"[RESET]">>
                    /\ \E i \in 1..Len(ret.text) : ret.text[i] = ResetNotice
    /\ (ret.op = "execute" /\ ret.val = "RESETTING" /\ ret.command = <<>>) =>
           pc \in {"setup", "ready", "cleared", "reset"}
    /\ FirstAfterReset => (ret.c = nMarked /\ ret.working_dir = "orig")

\* the first command after a reset that replaced a shell moved to another directory
C23_Witness ==
    /\ FirstAfterReset
    /\ ret.replaced.cwd = "other"
    /\ ret.working_dir = "orig"

\* a completed reset with a command
ResetWithCommand == ret.op = "execute" /\ ret.reset /\ ret.val = "COMPLETED"

\* C24: a reset with a command returns an observation labelled "[RESET] <command>"
\* whose text begins with the reset notice and holds the command's own output,
\* and the command has run in the new shell: its record is its own and reports
\* the directory the session was created with.
C24_ResetThenCommand ==
    ResetWithCommand =>
        /\ ret.command # <<>>
        /\ ret.command_label = <<"[RESET]", " ">> \o ret.command
        /\ ret.text # <<>> /\ ret.text[1] = ResetNotice
        /\ ~evicted => \E i \in 2..Len(ret.text) :
                           ret.text[i].k = "o" /\ ret.text[i].c = nMarked
        /\ ret.c = nMarked
        /\ ret.working_dir = "orig"

\* a reset with an echo that replaced a shell moved to another directory
C24_Witness ==
    /\ ResetWithCommand
    /\ ret.command = <<"e">>
    /\ ret.replaced.cwd = "other"
    /\ ret.text = <<ResetNotice, Tok("o", nMarked, 0)>>

\* a step in which a reset replaces the backend
RestartStep == nStarted' = nStarted + 1 /\ ret'.op = "execute"

\* C25: every reset leaves a new shell in which nothing set before exists, and a
\* session that is ready again: the variable is unset, the new backend gets
\* initialized, is alive and not closed, and the first command after the reset
\* that completes returns its own record, without the value of the variable.
C25_StateGoneAfterReset ==
    /\ [][RestartStep => (~psVar' /\ psCwd' = "orig" /\ output_buffer' = <<>>
                          /\ ~command_running' /\ process' = "alive" /\ ~closed')]_vars
    /\ [](ResetOnly => (initialized /\ process = "alive" /\ ~closed))
    /\ [](FirstAfterReset =>
              /\ ret.c = nMarked
              /\ \A i \in 1..Len(ret.text) : ret.text[i].k # "v")

\* after a reset that replaced a shell with the variable set, the printing of the
\* variable completes with empty output
C25_Witness ==
    /\ FirstAfterReset
    /\ ret.replaced.var
    /\ nStarted >= 2
    /\ ret.text = <<>>
    /\ ~psVar

-----------------------------------------------------------------------------
(* timeouts of execute() *)

\* a step in which execute returns a timeout status
TimeoutStep == pc = "poll" /\ pc' = "idle" /\ ret'.val \in {"NO_OUTPUT_TIMEOUT", "HARD_TIMEOUT"}

NoOutputStep == pc = "poll" /\ pc' = "idle" /\ ret'.val = "NO_OUTPUT_TIMEOUT"

\* C27: execute returns NO_OUTPUT_TIMEOUT only when no chunk of output has arrived
\* during the last NoChangeTimeoutPolls polls: a command whose output keeps
\* arriving is ended only by its record or by the hard ceiling.
C27_NoOutputTimeoutMeansSilence ==
    [][NoOutputStep => Quiet >= NoChangeTimeoutPolls]_vars

-----------------------------------------------------------------------------
(* the search for the completion record *)

\* a step in which _parse_metadata is applied to the text of the buffer
ParseStep == pc = "idle" /\ ret' # ret /\ ret'.op = "_parse_metadata"

\* the text begins, at its first BEGIN marker that has an END marker behind it,
\* with BEGIN, one payload of kind k, END
SpanHolds(text, k) ==
    \E i \in 1..Len(text) :
        /\ text[i].k = "B"
        /\ \E j \in (i + 2)..Len(text) : text[j].k = "E"
        /\ \A h \in 1..(i - 1) :
               text[h].k = "B" => \A j \in (h + 2)..Len(text) : text[j].k # "E"
        /\ i + 2 <= Len(text) /\ text[i + 1].k = k /\ text[i + 2].k = "E"

\* the first span of the text is a complete record: one well-formed payload
RecordComplete(text) == SpanHolds(text, "P")

\* the first span of the text is a record that lacks fields
RecordLacking(text) == SpanHolds(text, "L")

IsPrefix(s, t) == Len(s) <= Len(t) /\ SubSeq(t, 1, Len(s)) = s

-----------------------------------------------------------------------------
(* transport errors *)

\* send_keys of a command has returned after its write failed, and the backend
\* has come to rest: the shell process is gone and the reader thread has ended
FailedWriteAtRest ==
    /\ ret.op = "send_keys" /\ ret.val = "logged" /\ ret.text # <<>>
    /\ pc = "idle"
    /\ process # "alive"
    /\ reader_thread = "done"

\* C29: a transport error on the write is not raised to the caller and leads to
\* the cleanup of close(): once send_keys has returned from the failed write and
\* the reader has ended, the backend is closed and the command-running flag is
\* not set.
C29_FailedWriteClosesBackend ==
    FailedWriteAtRest => (ret.val # "RuntimeError" /\ closed /\ ~command_running)

\* the reader thread has ended without having been asked to stop: its read failed
\* or met the end of the stream
ReaderFailed == reader_thread = "done" /\ ~stop_reader

\* C30: a failure in the reader thread stays in that thread and degrades the
\* session into the closed state: once the reader has stopped because of a
\* failure, the session is closed.
C30_ReaderFailureClosesSession == ReaderFailed => closed

-----------------------------------------------------------------------------
(* the reader thread of a session *)

\* the session is open: initialized, not marked closed, its shell process alive
SessionOpen == initialized /\ ~closed /\ process = "alive"

\* the reader thread is in its loop and takes what the shell has written
ReaderAppending ==
    /\ reader_thread = "running"
    /\ pipe # <<>> => ENABLED ReaderRead

\* C32 as stated: in every state at most one reader thread exists, and while the
\* backend is initialized, not closed and its process alive, the reader is running
\* and still appending.
C32_OneRunningReader ==
    /\ nStarted <= 1
    /\ reader_thread # "none" => nStarted = 1
    /\ SessionOpen => ReaderAppending

\* C32, amended: at most one reader thread exists, and while the backend is
\* initialized, not closed, its process alive and no close() under way, the reader
\* is running, has not been told to stop and still appends the shell's output.
C32_OneRunningReaderUntilClose ==
    /\ nStarted <= 1
    /\ reader_thread # "none" => nStarted = 1
    /\ (SessionOpen /\ ~InClose) => (ReaderAppending /\ ~stop_reader)

\* an open session whose command has run: the shell's output waits in the pipe
\* and the reader is there to take it
C32_Witness ==
    /\ SessionOpen /\ pc = "idle"
    /\ nWrites > 0 /\ pipe # <<>>
    /\ reader_thread = "running"

-----------------------------------------------------------------------------
(* backend selection *)

\* C33: the backend of a session is chosen from the platform and the
\* availability of the multiplexer alone: Platform-Shell on the Windows platform
\* whether or not a multiplexer is there, elsewhere Multiplexer when it is found
\* and Raw-Pipe when not; it is a backend the package provides on that platform;
\* and the backend chosen is never replaced, also not by a reset.
C33_BackendSelectedOnce ==
    /\ [][(session_terminal = "none" /\ session_terminal' # "none") =>
             session_terminal' = (CASE platform_system = "Windows" -> "WindowsTerminal"
                                    [] platform_system # "Windows" /\ tmux_available
                                         -> "TmuxTerminal"
                                    [] OTHER -> "SubprocessTerminal")]_vars
    /\ [][session_terminal # "none" => session_terminal' = session_terminal]_vars
    /\ [](session_terminal # "none" => session_terminal \in Exported(platform_system))

\* a Platform-Shell session on a Windows host where a multiplexer is found, after
\* a reset has restarted its shell
C33_Witness ==
    /\ platform_system = "Windows" /\ tmux_available
    /\ session_terminal = "WindowsTerminal"
    /\ nStarted >= 2 /\ initialized /\ pc = "idle"

-----------------------------------------------------------------------------
(* the backend after close() *)

\* C34: a backend that is marked closed has no running shell process attached,
\* and no process or reader thread is started once it is closed, whatever the
\* order of the initialize() and close() calls.
C34_ClosedHasNoProcess ==
    /\ [](closed => process # "alive")
    /\ [][closed => nStarted' = nStarted]_vars

\* close() has closed the streams of a process
ClosedAProcess == \E i \in 1..Len(closeLog) : closeLog[i] \in {"stdin", "stdin_error"}

\* close() of an initialized backend has been called and has ended
AfterClose ==
    /\ pc = "idle"
    /\ initialized
    /\ closeCalled
    /\ ClosedAProcess \/ process = "none"

\* a step that is a call of one of the operations on the shell
OperationStep ==
    /\ pc = "idle"
    /\ ret' # ret
    /\ ret'.op \in {"send_keys", "clear_screen", "interrupt", "is_running", "read_screen"}

\* what each operation reports on a dead backend
DeadBackendAnswer ==
    [send_keys |-> "RuntimeError", clear_screen |-> "RuntimeError", interrupt |-> FALSE,
     is_running |-> FALSE, read_screen |-> "ok"]

\* C35: after close() of an initialized backend, send_keys and clear_screen fail
\* with the not-running error, interrupt() and is_running() return false,
\* read_screen() returns, and none of them changes closed, the buffer or the
\* process reference.
C35_OperationsAfterClose ==
    [][(AfterClose /\ OperationStep) =>
          /\ ret'.val = DeadBackendAnswer[ret'.op]
          /\ pc' = "idle"
          /\ UNCHANGED <<closed, output_buffer, process, stdin, nWrites>>]_vars

\* clear_screen has failed on a closed backend whose buffer still holds output
C35_Witness ==
    /\ AfterClose /\ closed
    /\ ret.op = "clear_screen" /\ ret.val = "RuntimeError"
    /\ output_buffer # <<>>

-----------------------------------------------------------------------------
(* what send_keys leaves alone *)

\* a step in which send_keys on a live process gets to the end of its clear
SendKeysCleared == pc = "idle" /\ pc' = "send" /\ ret'.op = "send_keys"

\* C36: a special key or an internal command sent through send_keys leaves the
\* output buffer and the command-running flag as they were and is written with no
\* completion marker; the buffer is cleared only by a send that is neither
\* internal nor a special key, and the flag is set only by such a send of
\* non-blank text.
C36_SpecialAndInternalSends ==
    /\ [][SendKeysCleared =>
            /\ output_buffer' = IF ret'.text \in SPECIAL_KEYS \/ ret'.internal
                                THEN output_buffer ELSE <<>>
            /\ UNCHANGED <<command_running, stdin, nMarked>>]_vars
    /\ [][SendKeysWrote =>
            LET special  == ret'.text \in SPECIAL_KEYS
                internal == ret'.internal
            IN  /\ output_buffer' = output_buffer
                /\ (special \/ internal) =>
                      /\ command_running' = command_running
                      /\ stdin' = stdin \o WithNewline(ret'.text, ret'.enter)
                      /\ nMarked' = nMarked
                /\ (~command_running /\ command_running') =>
                      (~special /\ ~internal /\ ~IsBlank(ret'.text))
                /\ (~special /\ ~internal /\ ~IsBlank(ret'.text)) => command_running']_vars

\* an internal command has been written while the buffer held output and the flag
\* of the command before it was set
C36_Witness ==
    /\ ret.op = "send_keys" /\ ret.val = "ok"
    /\ ret.internal /\ ret.text = <<"e">>
    /\ output_buffer # <<>>
    /\ command_running
    /\ stdin # <<>> /\ stdin[Len(stdin)] = "\n"

-----------------------------------------------------------------------------
(* the flag between the write of a command and its completion marker *)

\* the last call on the backend was a send_keys that wrote a command with its
\* marker, and the shell has not yet printed the completion record of that command
CommandInFlight ==
    /\ ret.op = "send_keys" /\ ret.val = "ok"
    /\ ~ret.internal /\ ~_is_special_key(ret.text) /\ ~IsBlank(ret.text)
    /\ process = "alive"
    /\ psMarked < nMarked

\* C37: send_keys of a non-blank, non-internal command clears the buffer first,
\* with nothing written yet, and sets the flag no later than it writes; and from
\* the write of the command until its completion marker arrives is_running() is
\* not false, unless interrupt() or clear_screen() was called in between.
C37_RunningUntilOwnMarker ==
    /\ [][(SendKeysCleared /\ ~ret'.internal /\ ~_is_special_key(ret'.text)
             /\ ~IsBlank(ret'.text)) => (output_buffer' = <<>> /\ stdin' = stdin)]_vars
    /\ [][(SendKeysWrote /\ ~ret'.internal /\ ~_is_special_key(ret'.text)
             /\ ~IsBlank(ret'.text)) => command_running']_vars
    /\ [][(IsRunningStep /\ CommandInFlight) => ret'.val]_vars

-----------------------------------------------------------------------------
(* the module-level Chromium detection function *)

\* C38: when no constructor of a WindowsBrowserToolExecutor is running, whether
\* the constructors so far returned or raised and whether they ran one after
\* another or at the same time in different threads, the module-level detection
\* function is the original one.
C38_DetectionFunctionRestored ==
    (\A t \in Threads : ctor[t].pc = "out") => check_chromium = "original"

\* the statements inside a with self.output_lock block of the caller, of the reader
CallerLocked == {"copy", "clear", "len", "release"}
ReaderLocked == {"append", "release"}

\* the lock is held only over a copy, a clear, a length test or an append
LockHeldBriefly ==
    /\ output_lock = "caller" => todo # <<>> /\ Head(todo) \in CallerLocked
    /\ output_lock = "reader" => RAt(Head(rtodo)) /\ Head(rtodo) \in ReaderLocked
    /\ todo # <<>> /\ Head(todo) \in Blocking => output_lock # "caller"
    /\ InClose => output_lock # "caller"

\* C31: the buffer lock is held only for the append, the length test and the
\* drain, never across a read, a write, a sleep, a join or a wait; whatever the
\* interleaving of the reader with the operations of the caller, a thread that
\* asks for the lock obtains it, and every operation and every close() ends.
C31_LockNeverBlocks ==
    /\ []LockHeldBriefly
    /\ (At("acquire") ~> output_lock = "caller")
    /\ (RAt("acquire") ~> output_lock = "reader")
    /\ ((todo # <<>>) ~> (todo = <<>>))
    /\ (InClose ~> ~InClose)

\* the reader waits with a chunk for the lock the caller holds in an operation
\* of an initialized backend
C31_Witness ==
    /\ initialized
    /\ output_lock = "caller"
    /\ RAt("acquire")
    /\ rchunk # <<>>

====
